---- MODULE Spec2Model ----
(***************************************************************************)
(* Binance perpetual-contract monitor: the tiered alert policy, the OI     *)
(* ratio, the alert dispatch, one collection cycle of AutoMonitorSystem,   *)
(* its scheduler loop, the single-alert path of monitor.py and the CSV     *)
(* store.                                                                  *)
(*                                                                         *)
(* Numbers are scaled integers:                                            *)
(*   funding rates in units of 1e-4   (0.001 is 10),                       *)
(*   market caps   in units of 1e7 USD (100,000,000 is 10),                *)
(*   open interest in contracts,                                           *)
(*   time          in seconds.                                             *)
(* An Optional value of the Python code is a sequence of length 0 (None)   *)
(* or 1 (the value).  A float quotient a/b is kept as the exact fraction   *)
(* [num, den]; the comparisons the code makes on it are made on the        *)
(* cross-products.                                                         *)
(***************************************************************************)
EXTENDS Integers, Sequences, FiniteSets, TLC

VARIABLES
    csv_rows,   \* policy evaluation: the rows of <symbol>.csv, in file order
    result,     \* policy evaluation: None, or the tuple check_conditions returned
    flat_result,\* policy evaluation: None, or the tuple FundingOIMonitor.check_conditions
                \* returned for the same rows
    alerts_arg, \* dispatch: the alerts list handed to send_combined_alerts
    send_ret,   \* dispatch: None, or what send_combined_alerts returned
    outbox,     \* the messages handed to the Telegram API since the running job
                \* began (the startup notification before the first), oldest first
    files,      \* DATA_DIR: symbol -> rows of <symbol>.csv (<<>>: no such file)
    other_bytes,\* DATA_DIR: bytes of the *.csv files of all other instruments
    config_ok,  \* Config: TELEGRAM_BOT_TOKEN and TELEGRAM_CHAT_ID are both set
    pc,         \* AutoMonitorSystem.run: "start", "cold", "loop", "exited", "stopped"
    job,        \* collection_job: "idle", "collect", "cleanup", "monitor", "count"
    todo,       \* collect_data: the symbols the for loop has not reached yet
    counts,     \* collect_data: success_count and error_count
    mon_todo,   \* monitor_all_symbols: the symbols the for loop has not reached yet
    alerts,     \* monitor_all_symbols: the alerts list
    stats,      \* AutoMonitorSystem: the four running totals and the cleanups done
    runs,       \* invocations begun: of collection_job, of status_report_job, and
                \* those of either begun by schedule.run_pending
    interrupted,\* a KeyboardInterrupt was raised in the main thread
    clock,      \* datetime.now(), one unit per snapshot
    now,        \* scheduler: the wall clock in seconds since run() began
    next_run,   \* scheduler: job -> the time schedule will next run it
    phase,      \* scheduler: "off", "tick" (before run_pending), "pass" (inside
                \* run_pending), "backoff" (inside time.sleep(60))
    pending,    \* scheduler: the due jobs run_pending has still to run, in order
    backoff_left,\* scheduler: seconds of time.sleep(60) still to pass
    lateness,   \* history: job -> start of its latest invocation minus its due time
    pass_log,   \* history: the jobs run in the latest run_pending, with outcomes
    escaped,    \* history: how many exceptions have left a job function
    since_escape,\* history: seconds since an exception last reached the main
                \* loop, counted up to BackoffSecs (-1: none has)
    clean_todo, \* cleanup_old_data: the files the for loop has not reached yet
    df_read,    \* cleanup_old_data: None, or the file the loop has read and not
                \* yet written back: its symbol and its rows
    cleanup_result,\* cleanup_old_data: files_processed, files_cleaned and
                \* total_rows_removed
    legacy_pc,  \* monitor.py run_monitoring: "idle", "sending" (inside send_alerts)
    legacy_alerts,\* monitor.py send_alerts: the alerts list it was handed
    calls,      \* monitor.py send_alerts: one record per pass of its for loop
    success_count,\* monitor.py send_alerts: success_count
    legacy_runs,\* monitor.py: invocations of run_monitoring begun
    disk,       \* store: symbol -> the lines of <symbol>.csv (<<>>: no such file)
    load_ret,   \* store: None, or the symbol and the result of the latest load
    last_op,    \* history: the latest store operation, its arguments and the
                \* files as they were before it
    store_ops,  \* history: the store operations done
    an_files,   \* analysis: symbol -> the rows load_symbol_data returns
                \* (<<>>: no such file)
    cutoff_time,\* analysis: datetime.now() - timedelta(hours=hours)
    changes,    \* analysis: None, or what analyze_changes returned
    results     \* analysis: None, or what find_extreme_changes returned

polVars == <<csv_rows, result, flat_result>>
dispVars == <<alerts_arg, send_ret>>
cycVars == <<files, other_bytes, config_ok, pc, job, todo, counts, mon_todo, alerts,
             stats, runs, interrupted, clock>>
schedVars == <<now, next_run, phase, pending, backoff_left, lateness, pass_log,
               escaped, since_escape>>
retVars == <<clean_todo, df_read, cleanup_result>>
legVars == <<legacy_pc, legacy_alerts, calls, success_count, legacy_runs>>
storeVars == <<disk, load_ret, last_op, store_ops>>
anVars == <<an_files, cutoff_time, changes, results>>
vars == <<csv_rows, result, flat_result, alerts_arg, send_ret, outbox, files, other_bytes, config_ok,
          pc, job, todo, counts, mon_todo, alerts, stats, runs, interrupted, clock,
          now, next_run, phase, pending, backoff_left, lateness, pass_log,
          escaped, since_escape, clean_todo, df_read, cleanup_result,
          legacy_pc, legacy_alerts, calls, success_count, legacy_runs,
          disk, load_ret, last_op, store_ops,
          an_files, cutoff_time, changes, results>>

----------------------------------------------------------------------------
(* Optional values *)
None == <<>>
Some(x) == <<x>>
Val(o) == o[1]

Abs(x) == IF x < 0 THEN -x ELSE x

----------------------------------------------------------------------------
(* Config: thresholds (defaults of the environment variables) *)
FUNDING_RATE_THRESHOLD == 10
OI_RATIO_THRESHOLD == 2
MARKET_CAP_THRESHOLD == 10

(* calculate_oi_ratio: rows required, short and long window *)
ShortWindow == 3
LongWindow == 10
MinRowsIsShortWindow == ShortWindow
MinRows == 10

----------------------------------------------------------------------------
(* Bounds of the model *)
MaxLen == 11                      \* longest series handed to the policy
OIPairs == {<<0, 400>>, <<100, 400>>}   \* the two OI levels one series moves between
FrVals == {-11, 10, 11}           \* funding rate of the latest snapshot
FrHigh == 20                      \* a funding rate above the threshold
CapVals == {None, Some(5), Some(10), Some(50)}   \* unknown, 5e7, 1e8, 5e8

----------------------------------------------------------------------------
(* pandas helpers *)

\* df.head(n)
head(df, n) == IF Len(df) <= n THEN df ELSE SubSeq(df, 1, n)

\* df.tail(n)
tail(df, n) == IF Len(df) <= n THEN df ELSE SubSeq(df, Len(df) - n + 1, Len(df))

\* df.sort_values('timestamp'): insertion of one row after the rows not later than it
RECURSIVE InsertByTimestamp(_, _)
InsertByTimestamp(sorted, row) ==
    IF sorted = <<>> THEN <<row>>
    ELSE IF sorted[Len(sorted)].timestamp <= row.timestamp
         THEN Append(sorted, row)
         ELSE Append(InsertByTimestamp(SubSeq(sorted, 1, Len(sorted) - 1), row),
                     sorted[Len(sorted)])

\* A stable sort leaves rows that are in order as they are
InOrder(df) == \A i \in 1..(Len(df) - 1) : df[i].timestamp <= df[i + 1].timestamp

RECURSIVE InsertionSort(_)
InsertionSort(df) ==
    IF InOrder(df) THEN df
    ELSE InsertByTimestamp(InsertionSort(SubSeq(df, 1, Len(df) - 1)), df[Len(df)])

\* The rows as the file holds them
keep_file_order(df) == df

sort_values(df) == InsertionSort(df)

\* df['oi'].sum(), the numerator of .mean()
RECURSIVE SumOI(_)
SumOI(df) == IF df = <<>> THEN 0 ELSE df[1].oi + SumOI(Tail(df))

----------------------------------------------------------------------------
(* Monitor *)

\* Monitor.load_symbol_data: None when the file does not exist (a file the
\* collector created holds at least one row), else the rows sorted by timestamp
load_symbol_data(rows) ==
    IF rows = <<>> THEN None ELSE Some(sort_values(rows))

\* The sum in the place of the mean
sum_only(df) == [num |-> SumOI(df), den |-> 1]

\* Series.mean() as the exact fraction sum/count
mean(df) == [num |-> SumOI(df), den |-> Len(df)]

\* The same quotient taken over whatever rows there are
oi_ratio_of_available(df) ==
    IF df = <<>> THEN None
    ELSE LET recent_data == tail(df, LongWindow)
             recent_3_avg == [num |-> SumOI(tail(recent_data, ShortWindow)),
                              den |-> Len(tail(recent_data, ShortWindow))]
             recent_10_avg == [num |-> SumOI(recent_data), den |-> Len(recent_data)]
         IN  IF recent_10_avg.num = 0 THEN None
             ELSE Some([num |-> recent_3_avg.num * recent_10_avg.den,
                        den |-> recent_3_avg.den * recent_10_avg.num])

\* The same quotient without the test of the divisor
oi_ratio_unguarded(df) ==
    IF Len(df) < MinRows THEN None
    ELSE LET recent_data == tail(df, LongWindow)
         IN  Some([num |-> SumOI(tail(recent_data, ShortWindow)) * Len(recent_data),
                   den |-> Len(tail(recent_data, ShortWindow)) * SumOI(recent_data)])

\* Monitor.calculate_oi_ratio: mean of the last 3 OI / mean of the last 10 OI
calculate_oi_ratio(df) ==
    IF Len(df) < MinRows THEN None
    ELSE LET recent_data == tail(df, LongWindow)
             recent_3_avg == mean(tail(recent_data, ShortWindow))
             recent_10_avg == mean(recent_data)
         IN  IF recent_10_avg.num = 0 THEN None
             ELSE Some([num |-> recent_3_avg.num * recent_10_avg.den,
                        den |-> recent_3_avg.den * recent_10_avg.num])

\* oi_ratio > threshold, on the exact fraction (den > 0: OI is never negative)
RatioGreaterOrEqual(ratio, threshold) == ratio.num >= threshold * ratio.den
RatioGreater(ratio, threshold) == ratio.num > threshold * ratio.den

\* market_cap is None or market_cap < MARKET_CAP_THRESHOLD
UnknownCapIsLarge(market_cap) ==
    market_cap # None /\ Val(market_cap) < MARKET_CAP_THRESHOLD
IsSmallCap(market_cap) ==
    market_cap = None \/ Val(market_cap) < MARKET_CAP_THRESHOLD

\* What check_conditions returns
Verdict(met, fr, ratio, oi, cap) ==
    [condition_met |-> met, funding_rate |-> fr, oi_ratio |-> ratio,
     current_oi |-> oi, market_cap |-> cap]

\* The same decision read from the oldest row of the file
check_conditions_oldest(rows, market_cap) ==
    IF Len(rows) = 0
    THEN [condition_met |-> FALSE, funding_rate |-> None, oi_ratio |-> None,
          current_oi |-> None, market_cap |-> market_cap]
    ELSE
    LET funding_condition == Abs(rows[1].last_funding_rate) > FUNDING_RATE_THRESHOLD
        s3 == SumOI(SubSeq(rows, Len(rows) - 2, Len(rows)))
        s10 == SumOI(SubSeq(rows, Len(rows) - 9, Len(rows)))
    IN  [condition_met |->
            IF market_cap = None \/ Val(market_cap) < MARKET_CAP_THRESHOLD
            THEN funding_condition
            ELSE /\ Len(rows) >= 10 /\ s10 # 0
                 /\ funding_condition /\ 10 * s3 > 2 * 3 * s10,
         funding_rate |-> Some(rows[1].last_funding_rate),
         oi_ratio |-> None, current_oi |-> Some(rows[1].oi),
         market_cap |-> market_cap]

\* Monitor.check_conditions, given the file's rows and what get_market_cap returned
check_conditions(rows, market_cap) ==
    LET loaded == load_symbol_data(rows) IN
    IF loaded = None \/ Len(Val(loaded)) = 0
    THEN Verdict(FALSE, None, None, None, market_cap)
    ELSE
    LET df == Val(loaded)
        latest == df[Len(df)]
        funding_rate == latest.last_funding_rate
        current_oi == latest.oi
        funding_condition == Abs(funding_rate) > FUNDING_RATE_THRESHOLD
    IN  IF IsSmallCap(market_cap)
        THEN Verdict(funding_condition, Some(funding_rate), None, Some(current_oi), market_cap)
        ELSE IF Len(df) < MinRows
        THEN Verdict(FALSE, Some(funding_rate), None, Some(current_oi), market_cap)
        ELSE LET oi_ratio == calculate_oi_ratio(df) IN
             IF oi_ratio = None
             THEN Verdict(FALSE, Some(funding_rate), None, Some(current_oi), market_cap)
             ELSE Verdict(funding_condition /\ RatioGreater(Val(oi_ratio), OI_RATIO_THRESHOLD),
                          Some(funding_rate), oi_ratio, Some(current_oi), market_cap)

----------------------------------------------------------------------------
(* monitor.py: FundingOIMonitor, the policy without market-cap tiers *)

FlatFundingRateThreshold == 10    \* "> 0.001" of check_conditions
FlatOIRatioThreshold == 2         \* "> 2.0" of check_conditions

\* FundingOIMonitor.load_symbol_data: None when the file does not exist, else
\* the rows sorted by timestamp
FundingOIMonitor_load_symbol_data(rows) ==
    IF rows = <<>> THEN None ELSE Some(sort_values(rows))

\* FundingOIMonitor.calculate_oi_ratio: mean of the last 3 OI / mean of the last 10 OI
FundingOIMonitor_calculate_oi_ratio(df) ==
    IF Len(df) < 10 THEN None
    ELSE LET recent_data == tail(df, 10)
             recent_3_avg == mean(tail(recent_data, 3))
             recent_10_avg == mean(recent_data)
         IN  IF recent_10_avg.num = 0 THEN None
             ELSE Some([num |-> recent_3_avg.num * recent_10_avg.den,
                        den |-> recent_3_avg.den * recent_10_avg.num])

\* What FundingOIMonitor.check_conditions returns
FlatVerdict(met, fr, ratio, oi) ==
    [condition_met |-> met, funding_rate |-> fr, oi_ratio |-> ratio, current_oi |-> oi]

\* The flat decision taken on the funding rate alone
check_conditions_funding_only(rows) ==
    IF rows = <<>> \/ Len(rows) < 10
    THEN [condition_met |-> FALSE, funding_rate |-> None, oi_ratio |-> None,
          current_oi |-> None]
    ELSE LET latest == InsertionSort(rows)[Len(rows)] IN
         [condition_met |-> Abs(latest.last_funding_rate) > 10,
          funding_rate |-> Some(latest.last_funding_rate),
          oi_ratio |-> None, current_oi |-> Some(latest.oi)]

\* FundingOIMonitor.check_conditions, given the file's rows
FundingOIMonitor_check_conditions(rows) ==
    LET loaded == FundingOIMonitor_load_symbol_data(rows) IN
    IF loaded = None \/ Len(Val(loaded)) < 10
    THEN FlatVerdict(FALSE, None, None, None)
    ELSE
    LET df == Val(loaded)
        latest == df[Len(df)]
        funding_rate == latest.last_funding_rate
        current_oi == latest.oi
        funding_condition == Abs(funding_rate) > FlatFundingRateThreshold
        oi_ratio == FundingOIMonitor_calculate_oi_ratio(df)
    IN  IF oi_ratio = None
        THEN FlatVerdict(FALSE, Some(funding_rate), None, Some(current_oi))
        ELSE FlatVerdict(funding_condition /\ RatioGreater(Val(oi_ratio), FlatOIRatioThreshold),
                         Some(funding_rate), oi_ratio, Some(current_oi))

----------------------------------------------------------------------------
(* Policy evaluation on one series *)

\* A series as the collector writes it: one row per cycle, timestamps rising.
\* The rows before the latest carry a funding rate on the other side of the
\* threshold than the latest row's.
OlderFr(f) == IF Abs(f) > FUNDING_RATE_THRESHOLD THEN 0 ELSE FrHigh

SeriesOf(n, pair, hi, f) ==
    [i \in 1..n |->
        [timestamp |-> i,
         last_funding_rate |-> IF i = n THEN f ELSE OlderFr(f),
         oi |-> IF i \in hi THEN pair[2] ELSE pair[1]]]

\* get_all_usdt_perpetual_symbols: the sorted symbol list
Symbols == <<"BTCUSDT", "ETHUSDT">>
SymbolSet == {Symbols[i] : i \in 1..Len(Symbols)}
\* get_market_cap: the assets of supply_map
InSupplyMap(symbol) ==
    symbol \in {"BTCUSDT", "ETHUSDT", "BNBUSDT", "ADAUSDT", "SOLUSDT", "XRPUSDT",
                "DOTUSDT", "DOGEUSDT", "AVAXUSDT", "MATICUSDT"}

ZeroStats == [collection_success_total |-> 0, collection_errors_total |-> 0,
              alerts_found_total |-> 0, alerts_sent_total |-> 0, cleanups |-> 0]
ZeroRuns == [collection |-> 0, status |-> 0, periodic |-> 0]
ZeroCounts == [success_count |-> 0, error_count |-> 0]

\* The jobs setup_schedule registers, in registration order
JobOrder == <<"collection", "status">>
Jobs == {JobOrder[i] : i \in 1..Len(JobOrder)}

PolicyIdle == csv_rows = <<>> /\ result = None /\ flat_result = None
SchedIdle ==
    /\ now = 0 /\ next_run = [j \in Jobs |-> 0] /\ phase = "off" /\ pending = <<>>
    /\ backoff_left = 0 /\ lateness = [j \in Jobs |-> 0] /\ pass_log = <<>>
    /\ escaped = 0 /\ since_escape = -1
DispatchIdle == alerts_arg = <<>> /\ send_ret = None
ZeroCleanup == [files_processed |-> 0, files_cleaned |-> 0, total_rows_removed |-> 0]
RetentionIdle == clean_todo = {} /\ df_read = None /\ cleanup_result = ZeroCleanup
LegacyIdle ==
    /\ legacy_pc = "idle" /\ legacy_alerts = <<>> /\ calls = <<>>
    /\ success_count = 0 /\ legacy_runs = 0
NoOp == [op |-> "none", symbol |-> "", rows |-> <<>>, before |-> <<>>]
AnalysisIdle ==
    /\ an_files = <<>> /\ cutoff_time = 0
    /\ changes = None /\ results = None
StoreIdle ==
    /\ disk = [s \in SymbolSet |-> <<>>] /\ load_ret = None
    /\ last_op = NoOp /\ store_ops = 0
CycleIdle ==
    /\ files = [s \in SymbolSet |-> <<>>] /\ other_bytes = 0 /\ config_ok = TRUE
    /\ pc = "exited" /\ job = "idle" /\ todo = <<>> /\ counts = ZeroCounts
    /\ mon_todo = {} /\ alerts = <<>> /\ stats = ZeroStats /\ runs = ZeroRuns
    /\ interrupted = FALSE /\ clock = 0

InitPolicy ==
    /\ DispatchIdle /\ CycleIdle /\ SchedIdle /\ RetentionIdle /\ LegacyIdle /\ StoreIdle /\ AnalysisIdle /\ outbox = <<>>
    /\ \E n \in 0..MaxLen, pair \in OIPairs, f \in FrVals :
         \E hi \in SUBSET (1..n) : csv_rows = SeriesOf(n, pair, hi, f)
    /\ result = None /\ flat_result = None

Evaluate ==
    /\ result = None
    /\ \E cap \in CapVals : result' = Some(check_conditions(csv_rows, cap))
    /\ UNCHANGED <<anVars, storeVars, legVars, retVars, csv_rows, flat_result, dispVars, outbox, cycVars, schedVars>>

\* monitor.py: FundingOIMonitor.check_conditions called for the same file
EvaluateFlat ==
    /\ flat_result = None
    /\ flat_result' = Some(FundingOIMonitor_check_conditions(csv_rows))
    /\ UNCHANGED <<anVars, storeVars, legVars, retVars, csv_rows, result, dispVars, outbox, cycVars, schedVars>>

NextPolicy == Evaluate

NextBothPolicies ==
    \/ Evaluate
    \/ EvaluateFlat

SpecBothPolicies == InitPolicy /\ [][NextBothPolicies]_vars

SpecPolicy == InitPolicy /\ [][NextPolicy]_vars

----------------------------------------------------------------------------
(* telegram_bot.TelegramBot: the combined alert message *)

MaxAlerts == 4                    \* most alerts handed to one call
SymbolNames == <<"BTCUSDT", "ETHUSDT", "SOLUSDT", "XRPUSDT", "DOGEUSDT", "AVAXUSDT">>
AlertFrVals == {None, Some(-20), Some(11), Some(20)}

\* -float('inf'): below every absolute value
NegInf == -1

\* get_funding_rate_abs, the sort key, and the same without abs()
get_funding_rate_raw(alert) ==
    IF alert.funding_rate = None THEN NegInf ELSE Val(alert.funding_rate)
get_funding_rate_abs(alert) ==
    IF alert.funding_rate = None THEN NegInf ELSE Abs(Val(alert.funding_rate))

\* sorted(alerts, key=get_funding_rate_abs, reverse=True): stable, greatest key
\* first; an element goes after every element whose key is not smaller
RECURSIVE InsertByKeyDesc(_, _)
InsertByKeyDesc(sorted, alert) ==
    IF sorted = <<>> THEN <<alert>>
    ELSE IF get_funding_rate_abs(sorted[Len(sorted)]) >= get_funding_rate_abs(alert)
         THEN Append(sorted, alert)
         ELSE Append(InsertByKeyDesc(SubSeq(sorted, 1, Len(sorted) - 1), alert),
                     sorted[Len(sorted)])

RECURSIVE sorted_alerts(_)
sorted_alerts(list) ==
    IF list = <<>> THEN <<>>
    ELSE InsertByKeyDesc(sorted_alerts(SubSeq(list, 1, Len(list) - 1)),
                         list[Len(list)])

\* One message handed to the API: its kind, the instruments it lists in order,
\* and what send_message returned (TRUE where the caller discards the result)
Message(kind, lines, ok) == [kind |-> kind, lines |-> lines, ok |-> ok]

\* The alert dict of monitor_all_symbols
AlertInfo(symbol, v) ==
    [symbol |-> symbol, funding_rate |-> v.funding_rate, oi_ratio |-> v.oi_ratio,
     current_oi |-> v.current_oi, market_cap |-> v.market_cap]

InitDispatch ==
    /\ PolicyIdle /\ CycleIdle /\ SchedIdle /\ RetentionIdle /\ LegacyIdle /\ StoreIdle /\ AnalysisIdle /\ outbox = <<>> /\ send_ret = None
    /\ \E n \in 0..MaxAlerts : \E frs \in [1..n -> AlertFrVals] :
         alerts_arg = [i \in 1..n |->
            AlertInfo(SymbolNames[i],
                      Verdict(TRUE, frs[i], None, Some(100), None))]

\* TelegramBot.send_combined_alerts
send_combined_alerts ==
    /\ send_ret = None
    /\ IF alerts_arg = <<>>
       THEN send_ret' = Some(TRUE) /\ UNCHANGED outbox
       ELSE \E ok \in BOOLEAN :
              /\ outbox' = Append(outbox, Message("combined", sorted_alerts(alerts_arg), ok))
              /\ send_ret' = Some(ok)
    /\ UNCHANGED <<anVars, storeVars, legVars, retVars, polVars, alerts_arg, cycVars, schedVars>>

NextDispatch == send_combined_alerts

SpecDispatch == InitDispatch /\ [][NextDispatch]_vars

----------------------------------------------------------------------------
(* AutoMonitorSystem: one process, from run() to its end *)

MaxCycles == 2                    \* invocations of collection_job in one run
MaxReports == 1                   \* invocations of status_report_job in one run

\* What a snapshot can carry: all zeros (every request failed, the getters
\* returned {}) or a reading with funding rate 0.0020 and OI 400
ApiResponses == {None, Some([fundingRate |-> 20, openInterest |-> 400])}

\* BinanceDataCollector.get_data_snapshot: get_mark_price, get_funding_rate and
\* get_open_interest catch every exception of their request and return {};
\* the snapshot then carries 0 in the place of each value
get_data_snapshot(response) ==
    IF response = None
    THEN [last_funding_rate |-> 0, oi |-> 0]
    ELSE [last_funding_rate |-> Val(response).fundingRate, oi |-> Val(response).openInterest]

SnapVals == {get_data_snapshot(response) : response \in ApiResponses}

\* A file left by an earlier run: nine rows, OI 100 seven times, then 400 twice
HistRows == 9
Hist == [i \in 1..HistRows |->
            [timestamp |-> i, last_funding_rate |-> 0, oi |-> IF i <= 7 THEN 100 ELSE 400]]

\* get_market_cap: None (request failed, or the asset is not in supply_map),
\* else price * supply, here 5e8
get_market_cap(symbol) == IF InSupplyMap(symbol) THEN {None, Some(50)} ELSE {None}

\* AutoMonitorSystem.data_size_threshold = 800 * 1024 * 1024, the header line
\* and a typical row of the CSV in bytes, the rows cleanup_old_data keeps
data_size_threshold == 838860800
HeaderBytes == 93
RowBytes == 104
RetainRows == 1000

\* os.path.getsize of one file
getsize(rows) == IF rows = <<>> THEN 0 ELSE HeaderBytes + Len(rows) * RowBytes

\* A size that always reaches the threshold
size_at_threshold(fs, others) == data_size_threshold

\* AutoMonitorSystem.calculate_data_size
RECURSIVE SumSizes(_, _)
SumSizes(fs, symbols) ==
    IF symbols = {} THEN 0
    ELSE LET s == CHOOSE x \in symbols : TRUE
         IN  getsize(fs[s]) + SumSizes(fs, symbols \ {s})
calculate_data_size(fs, others) == others + SumSizes(fs, DOMAIN fs)

\* glob("*.csv") over the modelled instruments
csv_files(fs) == {s \in DOMAIN fs : fs[s] # <<>>}

\* AutoMonitorSystem.cleanup_old_data: a file of more than 1000 rows keeps its
\* last 1000, unless reading or writing it raised
cleanup_old_data(fs, failed) ==
    [s \in DOMAIN fs |->
        IF s \notin failed /\ Len(fs[s]) > RetainRows THEN tail(fs[s], RetainRows) ELSE fs[s]]

\* BinanceDataCollector.save_to_csv: one row appended
save_to_csv(fs, symbol, row) == [fs EXCEPT ![symbol] = Append(@, row)]

InitCycle ==
    /\ PolicyIdle /\ DispatchIdle /\ SchedIdle /\ RetentionIdle /\ LegacyIdle /\ StoreIdle /\ AnalysisIdle /\ outbox = <<>>
    /\ \E h \in {<<>>, Hist} : files = [s \in SymbolSet |-> h]
    /\ other_bytes \in {0, data_size_threshold}
    /\ config_ok \in BOOLEAN
    /\ pc = "start" /\ job = "idle" /\ todo = <<>> /\ counts = ZeroCounts
    /\ mon_todo = {} /\ alerts = <<>> /\ stats = ZeroStats /\ runs = ZeroRuns
    /\ interrupted = FALSE /\ clock = HistRows + 1

\* run() that enters the main loop without the first collection
StartupWithoutFirstRun ==
    /\ pc = "start"
    /\ IF ~config_ok
       THEN pc' = "exited" /\ UNCHANGED outbox
       ELSE /\ \E ok \in BOOLEAN : outbox' = <<Message("startup", <<>>, ok)>>
            /\ pc' = "loop"
    /\ UNCHANGED <<anVars, storeVars, legVars, retVars, polVars, dispVars, schedVars, files, other_bytes, config_ok, job, todo, counts,
                   mon_todo, alerts, stats, runs, interrupted, clock>>

\* run(), up to the call of the first collection_job: validate_telegram_config,
\* send_startup_notification, setup_schedule
Startup ==
    /\ pc = "start"
    /\ IF ~config_ok
       THEN /\ pc' = "exited"
            /\ UNCHANGED <<outbox, job, todo, counts, runs>>
       ELSE /\ \E ok \in BOOLEAN : outbox' = <<Message("startup", <<>>, ok)>>
            /\ pc' = "cold"
            /\ job' = "collect" /\ todo' = Symbols /\ counts' = ZeroCounts
            /\ runs' = [runs EXCEPT !.collection = @ + 1]
    /\ UNCHANGED <<anVars, storeVars, legVars, retVars, polVars, dispVars, schedVars, files, other_bytes, config_ok, mon_todo, alerts,
                   stats, interrupted, clock>>

\* main loop: schedule.run_pending() finds collection_job due and calls it
BeginCollection ==
    /\ pc = "loop" /\ job = "idle"
    /\ runs.collection < MaxCycles
    /\ job' = "collect" /\ todo' = Symbols /\ counts' = ZeroCounts
    /\ outbox' = <<>> /\ alerts' = <<>>
    /\ runs' = [runs EXCEPT !.collection = @ + 1, !.periodic = @ + 1]
    /\ UNCHANGED <<anVars, storeVars, legVars, retVars, polVars, dispVars, schedVars, files, other_bytes, config_ok, pc, mon_todo,
                   stats, interrupted, clock>>

\* collect_data whose for loop has no try/except: the first exception ends it
CollectOneAborting ==
    /\ pc \in {"cold", "loop"} /\ job = "collect" /\ todo # <<>>
    /\ LET symbol == Head(todo) IN
       \E snap \in SnapVals, raised \in BOOLEAN :
          LET row == [timestamp |-> clock,
                      last_funding_rate |-> snap.last_funding_rate, oi |-> snap.oi]
          IN  IF raised
              THEN /\ counts' = [counts EXCEPT !.error_count = @ + 1]
                   /\ todo' = <<>>
                   /\ UNCHANGED files
              ELSE /\ files' = save_to_csv(files, symbol, row)
                   /\ counts' = [counts EXCEPT !.success_count = @ + 1]
                   /\ todo' = Tail(todo)
    /\ clock' = clock + 1
    /\ UNCHANGED <<anVars, storeVars, legVars, retVars, polVars, dispVars, schedVars, outbox, other_bytes, config_ok, pc, job, mon_todo,
                   alerts, stats, runs, interrupted>>

\* A pass of collect_data's loop in which a failure after "success_count += 1"
\* is counted as an error too
CollectOneCountingTwice ==
    /\ pc \in {"cold", "loop"} /\ job = "collect" /\ todo # <<>>
    /\ LET symbol == Head(todo) IN
       \E snap \in SnapVals, raised \in BOOLEAN :
          LET row == [timestamp |-> clock,
                      last_funding_rate |-> snap.last_funding_rate, oi |-> snap.oi]
          IN  IF raised
              THEN /\ files' = save_to_csv(files, symbol, row)
                   /\ counts' = [counts EXCEPT !.success_count = @ + 1,
                                               !.error_count = @ + 1]
              ELSE /\ files' = save_to_csv(files, symbol, row)
                   /\ counts' = [counts EXCEPT !.success_count = @ + 1]
    /\ todo' = Tail(todo)
    /\ clock' = clock + 1
    /\ UNCHANGED <<anVars, storeVars, legVars, retVars, polVars, dispVars, schedVars, outbox, other_bytes, config_ok, pc, job, mon_todo,
                   alerts, stats, runs, interrupted>>

\* collect_data: one pass of the for loop.  get_data_snapshot returns a
\* snapshot; save_to_csv appends it, or one of the two raises and the except
\* clause counts an error.
CollectOne ==
    /\ pc \in {"cold", "loop"} /\ job = "collect" /\ todo # <<>>
    /\ LET symbol == Head(todo) IN
       \E snap \in SnapVals, raised \in BOOLEAN :
          LET row == [timestamp |-> clock,
                      last_funding_rate |-> snap.last_funding_rate, oi |-> snap.oi]
          IN  IF raised
              THEN /\ counts' = [counts EXCEPT !.error_count = @ + 1]
                   /\ UNCHANGED files
              ELSE /\ files' = save_to_csv(files, symbol, row)
                   /\ counts' = [counts EXCEPT !.success_count = @ + 1]
    /\ todo' = Tail(todo)
    /\ clock' = clock + 1
    /\ UNCHANGED <<anVars, storeVars, legVars, retVars, polVars, dispVars, schedVars, outbox, other_bytes, config_ok, pc, job, mon_todo,
                   alerts, stats, runs, interrupted>>

\* collection_job after collect_data returned: the totals, then
\* check_and_cleanup_data, then the call of monitoring_job
CheckAndCleanup ==
    /\ pc \in {"cold", "loop"} /\ job = "collect" /\ todo = <<>>
    /\ LET current_size == calculate_data_size(files, other_bytes) IN
       IF current_size >= data_size_threshold
       THEN \E failed \in SUBSET {s \in csv_files(files) : Len(files[s]) > RetainRows} :
              /\ files' = cleanup_old_data(files, failed)
              /\ outbox' = outbox \o <<Message("cleanup_start", <<>>, TRUE),
                                        Message("cleanup_done", <<>>, TRUE)>>
              /\ stats' = [stats EXCEPT
                    !.collection_success_total = @ + counts.success_count,
                    !.collection_errors_total = @ + counts.error_count,
                    !.cleanups = @ + 1]
       ELSE /\ stats' = [stats EXCEPT
                    !.collection_success_total = @ + counts.success_count,
                    !.collection_errors_total = @ + counts.error_count]
            /\ UNCHANGED <<files, outbox>>
    /\ job' = "monitor"
    /\ alerts' = <<>>
    /\ mon_todo' = csv_files(files')
    /\ UNCHANGED <<anVars, storeVars, legVars, retVars, polVars, dispVars, schedVars, other_bytes, config_ok, pc, todo, counts, runs,
                   interrupted, clock>>

\* monitor_all_symbols line 496: f"{oi_ratio:.2f}" raises TypeError for None
FormatRaises(v) == v.oi_ratio = None

\* A loop that evaluates a symbol's file without moving on to the next file
MonitorOneRepeating ==
    /\ pc \in {"cold", "loop"} /\ job = "monitor" /\ mon_todo # {}
    /\ \E symbol \in mon_todo :
       \E cap \in get_market_cap(symbol), ok \in BOOLEAN, advance \in BOOLEAN :
          LET v == check_conditions(files[symbol], cap)
              alert_info == AlertInfo(symbol, v)
          IN  /\ mon_todo' = IF advance \/ ~v.condition_met
                             THEN mon_todo \ {symbol} ELSE mon_todo
              /\ IF ~v.condition_met
                 THEN UNCHANGED <<alerts, outbox>>
                 ELSE /\ alerts' = Append(alerts, alert_info)
                      /\ IF FormatRaises(v)
                         THEN UNCHANGED outbox
                         ELSE outbox' = Append(outbox, Message("alert", <<alert_info>>, ok))
    /\ UNCHANGED <<anVars, storeVars, legVars, retVars, polVars, dispVars, schedVars, files, other_bytes, config_ok, pc, job, todo, counts,
                   stats, runs, interrupted, clock>>

\* monitor_all_symbols: one pass of the for loop, over the files in glob order
MonitorOne ==
    /\ pc \in {"cold", "loop"} /\ job = "monitor" /\ mon_todo # {}
    /\ \E symbol \in mon_todo :
       \E cap \in get_market_cap(symbol), ok \in BOOLEAN :
          LET v == check_conditions(files[symbol], cap)
              alert_info == AlertInfo(symbol, v)
          IN  /\ mon_todo' = mon_todo \ {symbol}
              /\ IF ~v.condition_met
                 THEN UNCHANGED <<alerts, outbox>>
                 ELSE /\ alerts' = Append(alerts, alert_info)
                      /\ IF FormatRaises(v)
                         THEN UNCHANGED outbox
                         ELSE outbox' = Append(outbox, Message("alert", <<alert_info>>, ok))
    /\ UNCHANGED <<anVars, storeVars, legVars, retVars, polVars, dispVars, schedVars, files, other_bytes, config_ok, pc, job, todo, counts,
                   stats, runs, interrupted, clock>>

\* A monitoring_job that counts as sent only the alerts the transport accepted
FinishJobCountingDelivered ==
    /\ pc \in {"cold", "loop"} /\ job = "monitor" /\ mon_todo = {}
    /\ stats' = [stats EXCEPT
          !.alerts_found_total = @ + Len(alerts),
          !.alerts_sent_total = @ + Cardinality({i \in 1..Len(outbox) :
                                      outbox[i].kind = "alert" /\ outbox[i].ok})]
    /\ job' = "idle"
    /\ pc' = "loop"
    /\ UNCHANGED <<anVars, storeVars, legVars, retVars, polVars, dispVars, schedVars, outbox, files, other_bytes, config_ok, todo, counts,
                   mon_todo, alerts, runs, interrupted, clock>>

\* monitoring_job after monitor_all_symbols returned; collection_job returns
FinishJob ==
    /\ pc \in {"cold", "loop"} /\ job = "monitor" /\ mon_todo = {}
    /\ stats' = [stats EXCEPT !.alerts_found_total = @ + Len(alerts),
                              !.alerts_sent_total = @ + Len(alerts)]
    /\ job' = "idle"
    /\ pc' = "loop"
    /\ UNCHANGED <<anVars, storeVars, legVars, retVars, polVars, dispVars, schedVars, outbox, files, other_bytes, config_ok, todo, counts,
                   mon_todo, alerts, runs, interrupted, clock>>

\* A status report that trims the files it counts
StatusReportJobTrimming ==
    /\ pc = "loop" /\ job = "idle"
    /\ runs.status < MaxReports
    /\ \E ok \in BOOLEAN : outbox' = Append(outbox, Message("status", <<>>, ok))
    /\ runs' = [runs EXCEPT !.status = @ + 1, !.periodic = @ + 1]
    /\ files' = [s \in DOMAIN files |-> tail(files[s], RetainRows)]
    /\ UNCHANGED <<anVars, storeVars, legVars, retVars, polVars, dispVars, schedVars, other_bytes, config_ok, pc, job, todo, counts,
                   mon_todo, alerts, stats, interrupted, clock>>

\* main loop: schedule.run_pending() finds status_report_job due and runs it
StatusReportJob ==
    /\ pc = "loop" /\ job = "idle"
    /\ runs.status < MaxReports
    /\ \E ok \in BOOLEAN : outbox' = Append(outbox, Message("status", <<>>, ok))
    /\ runs' = [runs EXCEPT !.status = @ + 1, !.periodic = @ + 1]
    /\ UNCHANGED <<anVars, storeVars, legVars, retVars, polVars, dispVars, schedVars, files, other_bytes, config_ok, pc, job, todo, counts,
                   mon_todo, alerts, stats, interrupted, clock>>

\* A KeyboardInterrupt that the job's "except Exception" clauses swallowed
InterruptSwallowed ==
    /\ pc \in {"cold", "loop"} /\ ~interrupted
    /\ interrupted' = TRUE
    /\ pc' = IF job = "idle" THEN "stopped" ELSE pc
    /\ UNCHANGED <<anVars, storeVars, legVars, retVars, polVars, dispVars, schedVars, outbox, files, other_bytes, config_ok, job, todo,
                   counts, mon_todo, alerts, stats, runs, clock>>

\* Ctrl+C: KeyboardInterrupt is raised where the main thread stands.  It is no
\* Exception, so no "except Exception" of a job catches it: it leaves the job
\* and reaches "except KeyboardInterrupt: break" of the main loop (or, in the
\* first collection, leaves run()).
Interrupt ==
    /\ pc \in {"cold", "loop"} /\ ~interrupted
    /\ interrupted' = TRUE
    /\ pc' = "stopped"
    /\ UNCHANGED <<anVars, storeVars, legVars, retVars, polVars, dispVars, schedVars, outbox, files, other_bytes, config_ok, job, todo,
                   counts, mon_todo, alerts, stats, runs, clock>>

Next ==
    \/ Startup
    \/ BeginCollection
    \/ CollectOne
    \/ CheckAndCleanup
    \/ MonitorOne
    \/ FinishJob
    \/ StatusReportJob
    \/ Interrupt

Spec == InitCycle /\ [][Next]_vars

----------------------------------------------------------------------------
(* The last collection cycle of a run, with long series:                      *)
(* check_and_cleanup_data and cleanup_old_data step by step, one file read    *)
(* and written at a time                                                      *)

MaxRows == 1500                   \* longest series on disk when the cycle begins
SeriesLens == {800, RetainRows, MaxRows}
LongSeries(n) == [i \in 1..n |-> [timestamp |-> i, last_funding_rate |-> 0, oi |-> 100]]

\* A loop body that keeps the oldest rows, and one that removes nothing
compact_oldest(rows) ==
    IF Len(rows) <= RetainRows
    THEN [rows |-> rows, rows_removed |-> 0, written |-> FALSE]
    ELSE [rows |-> SubSeq(rows, 1, RetainRows), rows_removed |-> Len(rows) - RetainRows,
          written |-> TRUE]
compact_nothing(rows) == [rows |-> rows, rows_removed |-> 0, written |-> FALSE]

\* cleanup_old_data, the body of its for loop once pd.read_csv returned: what
\* df_cleaned holds, rows_removed, and whether to_csv is called
compact(rows) ==
    LET original_rows == Len(rows)
        df_cleaned == tail(rows, RetainRows)
        rows_removed == original_rows - Len(df_cleaned)
    IN  IF original_rows <= RetainRows
        THEN [rows |-> rows, rows_removed |-> 0, written |-> FALSE]
        ELSE [rows |-> df_cleaned, rows_removed |-> rows_removed,
              written |-> rows_removed > 0]

InitRetention ==
    /\ PolicyIdle /\ DispatchIdle /\ SchedIdle /\ RetentionIdle /\ LegacyIdle /\ StoreIdle /\ AnalysisIdle /\ outbox = <<>>
    /\ \E lens \in [SymbolSet -> SeriesLens] : files = [s \in SymbolSet |-> LongSeries(lens[s])]
    /\ other_bytes \in {0, data_size_threshold}
    /\ config_ok = TRUE
    /\ pc = "loop" /\ job = "idle" /\ todo = <<>> /\ counts = ZeroCounts
    /\ mon_todo = {} /\ alerts = <<>> /\ stats = ZeroStats
    /\ runs = [collection |-> MaxCycles - 1, status |-> 0, periodic |-> MaxCycles - 2]
    /\ interrupted = FALSE /\ clock = MaxRows + 1

\* A collection_job that goes on to the size check while collect_data runs
CheckSizeEarly ==
    /\ pc \in {"cold", "loop"} /\ job = "collect"
    /\ stats' = [stats EXCEPT
            !.collection_success_total = @ + counts.success_count,
            !.collection_errors_total = @ + counts.error_count]
    /\ IF calculate_data_size(files, other_bytes) >= data_size_threshold
       THEN /\ outbox' = Append(outbox, Message("cleanup_start", <<>>, TRUE))
            /\ job' = "cleanup"
            /\ clean_todo' = csv_files(files)
            /\ cleanup_result' = ZeroCleanup
            /\ UNCHANGED <<mon_todo, alerts>>
       ELSE /\ job' = "monitor"
            /\ alerts' = <<>>
            /\ mon_todo' = csv_files(files)
            /\ UNCHANGED <<outbox, clean_todo, cleanup_result>>
    /\ UNCHANGED <<anVars, storeVars, legVars, polVars, dispVars, schedVars, files, other_bytes, config_ok, pc, todo,
                   counts, runs, interrupted, clock, df_read>>

\* collection_job after collect_data returned: the totals, then
\* check_and_cleanup_data up to the call of cleanup_old_data
CheckSize ==
    /\ pc \in {"cold", "loop"} /\ job = "collect" /\ todo = <<>>
    /\ stats' = [stats EXCEPT
            !.collection_success_total = @ + counts.success_count,
            !.collection_errors_total = @ + counts.error_count]
    /\ IF calculate_data_size(files, other_bytes) >= data_size_threshold
       THEN /\ outbox' = Append(outbox, Message("cleanup_start", <<>>, TRUE))
            /\ job' = "cleanup"
            /\ clean_todo' = csv_files(files)
            /\ cleanup_result' = ZeroCleanup
            /\ UNCHANGED <<mon_todo, alerts>>
       ELSE /\ job' = "monitor"
            /\ alerts' = <<>>
            /\ mon_todo' = csv_files(files)
            /\ UNCHANGED <<outbox, clean_todo, cleanup_result>>
    /\ UNCHANGED <<anVars, storeVars, legVars, polVars, dispVars, schedVars, files, other_bytes, config_ok, pc, todo,
                   counts, runs, interrupted, clock, df_read>>

\* A read that returns the file as it was before the cycle's append
CleanReadStale ==
    /\ job = "cleanup" /\ df_read = None /\ clean_todo # {}
    /\ \E s \in clean_todo :
          df_read' = Some([symbol |-> s, rows |-> SubSeq(files[s], 1, Len(files[s]) - 1)])
    /\ UNCHANGED <<anVars, storeVars, legVars, polVars, dispVars, schedVars, outbox, cycVars, clean_todo, cleanup_result>>

\* A read whose exception ends the whole pass
CleanReadAborting ==
    /\ job = "cleanup" /\ df_read = None /\ clean_todo # {}
    /\ \E s \in clean_todo, raised \in BOOLEAN :
          IF raised
          THEN clean_todo' = {} /\ UNCHANGED df_read
          ELSE df_read' = Some([symbol |-> s, rows |-> files[s]]) /\ UNCHANGED clean_todo
    /\ UNCHANGED <<anVars, storeVars, legVars, polVars, dispVars, schedVars, outbox, cycVars, cleanup_result>>

\* cleanup_old_data: pd.read_csv of the next file; when it raises the except
\* clause goes on to the next file
CleanRead ==
    /\ job = "cleanup" /\ df_read = None /\ clean_todo # {}
    /\ \E s \in clean_todo, raised \in BOOLEAN :
          IF raised
          THEN clean_todo' = clean_todo \ {s} /\ UNCHANGED df_read
          ELSE df_read' = Some([symbol |-> s, rows |-> files[s]]) /\ UNCHANGED clean_todo
    /\ UNCHANGED <<anVars, storeVars, legVars, polVars, dispVars, schedVars, outbox, cycVars, cleanup_result>>

\* cleanup_old_data: the rest of the loop body for the file read: tail(1000)
\* and, when rows were removed, to_csv; when to_csv raises the file is left
\* and not counted
CleanWrite ==
    /\ job = "cleanup" /\ df_read # None
    /\ LET s == Val(df_read).symbol
           c == compact(Val(df_read).rows)
       IN  \E raised \in BOOLEAN :
           IF c.written /\ raised
           THEN UNCHANGED <<files, cleanup_result>>
           ELSE /\ files' = IF c.written THEN [files EXCEPT ![s] = c.rows] ELSE files
                /\ cleanup_result' = [cleanup_result EXCEPT
                      !.files_processed = @ + 1,
                      !.files_cleaned = @ + (IF c.written THEN 1 ELSE 0),
                      !.total_rows_removed = @ + (IF c.written THEN c.rows_removed ELSE 0)]
    /\ clean_todo' = clean_todo \ {Val(df_read).symbol}
    /\ df_read' = None
    /\ UNCHANGED <<anVars, storeVars, legVars, polVars, dispVars, schedVars, outbox, other_bytes, config_ok, pc, job, todo,
                   counts, mon_todo, alerts, stats, runs, interrupted, clock>>

\* cleanup_old_data returns; check_and_cleanup_data sends its second message
\* and returns; collection_job calls monitoring_job
CleanupReturns ==
    /\ job = "cleanup" /\ df_read = None /\ clean_todo = {}
    /\ outbox' = Append(outbox, Message("cleanup_done", <<>>, TRUE))
    /\ stats' = [stats EXCEPT !.cleanups = @ + 1]
    /\ job' = "monitor"
    /\ alerts' = <<>>
    /\ mon_todo' = csv_files(files)
    /\ UNCHANGED <<anVars, storeVars, legVars, polVars, dispVars, schedVars, files, other_bytes, config_ok, pc, todo,
                   counts, runs, interrupted, clock, retVars>>

NextRetention ==
    \/ BeginCollection
    \/ CollectOne
    \/ CheckSize
    \/ CleanRead
    \/ CleanWrite
    \/ CleanupReturns
    \/ MonitorOne
    \/ FinishJob
    \/ StatusReportJob

SpecRetention == InitRetention /\ [][NextRetention]_vars

----------------------------------------------------------------------------
(* AutoMonitorSystem.run as a timed loop: schedule's jobs and the main loop.  *)
(* A job invocation is one step here; its inside is the cycle above.          *)

MaxTime == 1830                   \* the wall clock stops the model here
MaxJobSecs == 1                   \* longest a job invocation takes
MaxEscapes == 1                   \* exceptions that leave a job function in one run

\* schedule.every(5).minutes, schedule.every(30).minutes, time.sleep(1),
\* time.sleep(60)
CollectionEvery == 300
StatusEvery == 1800
SleepSecs == 1
BackoffIsOneTick == SleepSecs
BackoffSecs == 60

Interval(j) == IF j = "collection" THEN CollectionEvery ELSE StatusEvery

\* How an invocation of a job function ends: "ok"; "fail", an exception raised
\* inside the job's try block; "fail_outside_try", an exception raised by the
\* print before the try block or by the print of the except clause
Outcomes == {"ok", "fail", "fail_outside_try"}

\* A job function without its try/except: every exception leaves it
EscapesUnwrapped(outcome) == outcome \in {"fail", "fail_outside_try"}
\* collection_job, status_report_job: "try: ... except Exception as e: print(...)":
\* an exception leaves the job function only when raised outside the try block
Escapes(outcome) == outcome = "fail_outside_try"

\* schedule.run_pending: sorted(job for job in jobs if job.should_run), the due
\* jobs by next_run, equal ones in registration order
RECURSIVE InsertByNextRun(_, _, _)
InsertByNextRun(sorted, j, nr) ==
    IF sorted = <<>> THEN <<j>>
    ELSE IF nr[sorted[Len(sorted)]] <= nr[j]
         THEN Append(sorted, j)
         ELSE Append(InsertByNextRun(SubSeq(sorted, 1, Len(sorted) - 1), j, nr),
                     sorted[Len(sorted)])
RECURSIVE SortByNextRun(_, _)
SortByNextRun(js, nr) ==
    IF js = <<>> THEN <<>>
    ELSE InsertByNextRun(SortByNextRun(SubSeq(js, 1, Len(js) - 1), nr), js[Len(js)], nr)
should_run(j, t, nr) == t >= nr[j]
runnable_jobs(t, nr) ==
    LET Due(j) == should_run(j, t, nr) IN SortByNextRun(SelectSeq(JobOrder, Due), nr)

\* the seconds counted since the last escape, after d more seconds
Elapsed(count, d) ==
    IF count = -1 THEN -1 ELSE IF count + d > BackoffSecs THEN BackoffSecs ELSE count + d

InitSched ==
    /\ PolicyIdle /\ DispatchIdle /\ outbox = <<>>
    /\ files = [s \in SymbolSet |-> <<>>] /\ other_bytes = 0 /\ config_ok = TRUE
    /\ pc = "start" /\ job = "idle" /\ todo = <<>> /\ counts = ZeroCounts
    /\ mon_todo = {} /\ alerts = <<>> /\ stats = ZeroStats /\ runs = ZeroRuns
    /\ interrupted = FALSE /\ clock = 0
    /\ SchedIdle /\ RetentionIdle /\ LegacyIdle /\ StoreIdle /\ AnalysisIdle

\* run(): setup_schedule registers both jobs at time 0, then the first
\* collection_job runs outside the main loop's try; then the loop begins
RunStart ==
    /\ pc = "start"
    /\ next_run' = [j \in Jobs |-> now + Interval(j)]
    /\ \E outcome \in Outcomes, d \in 0..MaxJobSecs :
          /\ now' = now + d
          /\ runs' = [runs EXCEPT !.collection = @ + 1]
          /\ escaped' = IF outcome = "fail_outside_try" THEN 1 ELSE 0
          /\ IF Escapes(outcome)
             THEN pc' = "exited" /\ phase' = "off"
             ELSE pc' = "loop" /\ phase' = "tick"
    /\ UNCHANGED <<anVars, storeVars, legVars, retVars, polVars, dispVars, outbox, files, other_bytes, config_ok, job, todo,
                   counts, mon_todo, alerts, stats, interrupted, clock,
                   pending, backoff_left, lateness, pass_log, since_escape>>

\* main loop: schedule.run_pending() lists the due jobs
RunPending ==
    /\ pc = "loop" /\ phase = "tick"
    /\ pending' = runnable_jobs(now, next_run)
    /\ pass_log' = <<>>
    /\ phase' = "pass"
    /\ UNCHANGED <<anVars, storeVars, legVars, retVars, polVars, dispVars, outbox, cycVars,
                   now, next_run, backoff_left, lateness, escaped, since_escape>>

\* schedule.run_pending(): the next due job runs.  When it returns it is
\* scheduled again, its interval after the time it returned; when an exception
\* leaves it, run_pending is left with it and the loop's "except Exception"
\* begins time.sleep(60).
RunJob ==
    /\ pc = "loop" /\ phase = "pass" /\ pending # <<>>
    /\ LET j == Head(pending) IN
       \E outcome \in Outcomes, d \in 0..MaxJobSecs :
          /\ now' = now + d
          /\ lateness' = [lateness EXCEPT ![j] = now - next_run[j]]
          /\ pass_log' = Append(pass_log, [job |-> j, outcome |-> outcome])
          /\ runs' = [runs EXCEPT ![j] = @ + 1, !.periodic = @ + 1]
          /\ outcome = "fail_outside_try" => escaped < MaxEscapes
          /\ escaped' = IF outcome = "fail_outside_try" THEN escaped + 1 ELSE escaped
          /\ IF Escapes(outcome)
             THEN /\ phase' = "backoff"
                  /\ backoff_left' = BackoffSecs
                  /\ pending' = <<>>
                  /\ since_escape' = 0
                  /\ UNCHANGED next_run
             ELSE /\ next_run' = [next_run EXCEPT ![j] = now' + Interval(j)]
                  /\ pending' = Tail(pending)
                  /\ since_escape' = Elapsed(since_escape, d)
                  /\ UNCHANGED <<phase, backoff_left>>
    /\ UNCHANGED <<anVars, storeVars, legVars, retVars, polVars, dispVars, outbox, files, other_bytes, config_ok, pc, job,
                   todo, counts, mon_todo, alerts, stats, interrupted, clock>>

\* main loop: run_pending returned; time.sleep(1)
Sleep ==
    /\ pc = "loop" /\ phase = "pass" /\ pending = <<>>
    /\ now + SleepSecs <= MaxTime
    /\ now' = now + SleepSecs
    /\ since_escape' = Elapsed(since_escape, SleepSecs)
    /\ phase' = "tick"
    /\ UNCHANGED <<anVars, storeVars, legVars, retVars, polVars, dispVars, outbox, cycVars,
                   next_run, pending, backoff_left, lateness, pass_log, escaped>>

\* main loop, "except Exception": one second of time.sleep(60) passes; after
\* the last the loop goes round again
BackoffTick ==
    /\ pc = "loop" /\ phase = "backoff"
    /\ now + 1 <= MaxTime
    /\ now' = now + 1
    /\ since_escape' = Elapsed(since_escape, 1)
    /\ IF backoff_left <= 1
       THEN phase' = "tick" /\ backoff_left' = 0
       ELSE phase' = "backoff" /\ backoff_left' = backoff_left - 1
    /\ UNCHANGED <<anVars, storeVars, legVars, retVars, polVars, dispVars, outbox, cycVars,
                   next_run, pending, lateness, pass_log, escaped>>

\* Ctrl+C while the loop runs: "except KeyboardInterrupt: break", or, during
\* time.sleep(60) in the except clause, out of run()
LoopInterrupt ==
    /\ pc = "loop" /\ phase # "off" /\ ~interrupted
    /\ interrupted' = TRUE
    /\ pc' = "stopped"
    /\ UNCHANGED <<anVars, storeVars, legVars, retVars, polVars, dispVars, outbox, files, other_bytes, config_ok, job, todo,
                   counts, mon_todo, alerts, stats, runs, clock, schedVars>>

NextSched ==
    \/ RunStart
    \/ RunPending
    \/ RunJob
    \/ Sleep
    \/ BackoffTick
    \/ LoopInterrupt

SpecSched == InitSched /\ [][NextSched]_vars

----------------------------------------------------------------------------
(* The same loop with no end of time.  The loop reads the clock only to       *)
(* compare it with next_run, so here the clock is read from the current       *)
(* instant: now stays 0 and next_run[j] is the time from now until job j is   *)
(* due (negative: overdue).  d seconds passing lower every next_run by d.     *)
(* The invocation counters of runs are not kept beyond the first collection,  *)
(* and lateness is not kept.                                                  *)

Shift(nr, d) == [j \in Jobs |-> nr[j] - d]

\* The one-second sleeps of the main loop until some job is due: at least one
RECURSIVE MinNextRun(_, _)
MinNextRun(nr, js) ==
    IF Len(js) = 1 THEN nr[js[1]]
    ELSE LET m == MinNextRun(nr, Tail(js)) IN IF nr[js[1]] < m THEN nr[js[1]] ELSE m
IdleSecs(nr) == IF MinNextRun(nr, JobOrder) > SleepSecs THEN MinNextRun(nr, JobOrder) ELSE SleepSecs

\* run(): setup_schedule, the first collection_job, and into the loop
LiveStart ==
    /\ pc = "start"
    /\ \E outcome \in Outcomes, d \in 0..MaxJobSecs :
          /\ next_run' = Shift([j \in Jobs |-> Interval(j)], d)
          /\ runs' = [runs EXCEPT !.collection = @ + 1]
          /\ escaped' = IF outcome = "fail_outside_try" THEN 1 ELSE 0
          /\ IF Escapes(outcome)
             THEN pc' = "exited" /\ phase' = "off"
             ELSE pc' = "loop" /\ phase' = "tick"
    /\ UNCHANGED <<anVars, storeVars, legVars, retVars, polVars, dispVars, outbox, files, other_bytes, config_ok, job, todo,
                   counts, mon_todo, alerts, stats, interrupted, clock,
                   now, pending, backoff_left, lateness, pass_log, since_escape>>

\* main loop: schedule.run_pending() lists the due jobs
LivePending ==
    /\ pc = "loop" /\ phase = "tick"
    /\ pending' = runnable_jobs(now, next_run)
    /\ pass_log' = <<>>
    /\ phase' = "pass"
    /\ UNCHANGED <<anVars, storeVars, legVars, retVars, polVars, dispVars, outbox, cycVars,
                   now, next_run, backoff_left, lateness, escaped, since_escape>>

\* schedule.run_pending(): the next due job runs, as in RunJob
LiveRunJob ==
    /\ pc = "loop" /\ phase = "pass" /\ pending # <<>>
    /\ LET j == Head(pending) IN
       \E outcome \in Outcomes, d \in 0..MaxJobSecs :
          /\ outcome = "fail_outside_try" => escaped < MaxEscapes
          /\ escaped' = IF outcome = "fail_outside_try" THEN escaped + 1 ELSE escaped
          /\ pass_log' = Append(pass_log, [job |-> j, outcome |-> outcome])
          /\ IF Escapes(outcome)
             THEN /\ phase' = "backoff"
                  /\ backoff_left' = BackoffSecs
                  /\ pending' = <<>>
                  /\ since_escape' = 0
                  /\ next_run' = Shift(next_run, d)
             ELSE /\ next_run' = [Shift(next_run, d) EXCEPT ![j] = Interval(j)]
                  /\ pending' = Tail(pending)
                  /\ since_escape' = Elapsed(since_escape, d)
                  /\ UNCHANGED <<phase, backoff_left>>
    /\ UNCHANGED <<anVars, storeVars, legVars, retVars, polVars, dispVars, outbox, cycVars, now, lateness>>

\* main loop: run_pending returned; time.sleep(1), and again with nothing due
\* until a job is due
LiveSleep ==
    /\ pc = "loop" /\ phase = "pass" /\ pending = <<>>
    /\ next_run' = Shift(next_run, IdleSecs(next_run))
    /\ since_escape' = Elapsed(since_escape, IdleSecs(next_run))
    /\ pass_log' = IF IdleSecs(next_run) > SleepSecs THEN <<>> ELSE pass_log
    /\ phase' = "tick"
    /\ UNCHANGED <<anVars, storeVars, legVars, retVars, polVars, dispVars, outbox, cycVars,
                   now, pending, backoff_left, lateness, escaped>>

\* An except clause of the main loop that leaves the loop
LoopEndsOnError ==
    /\ pc = "loop" /\ phase = "backoff"
    /\ pc' = "stopped"
    /\ UNCHANGED <<anVars, storeVars, legVars, retVars, polVars, dispVars, outbox, files, other_bytes, config_ok, job, todo,
                   counts, mon_todo, alerts, stats, runs, interrupted, clock, schedVars>>

\* main loop, "except Exception": time.sleep(60) returns
LiveBackoff ==
    /\ pc = "loop" /\ phase = "backoff"
    /\ next_run' = Shift(next_run, backoff_left)
    /\ since_escape' = Elapsed(since_escape, backoff_left)
    /\ phase' = "tick" /\ backoff_left' = 0
    /\ UNCHANGED <<anVars, storeVars, legVars, retVars, polVars, dispVars, outbox, cycVars,
                   now, pending, lateness, pass_log, escaped>>

LiveRuns ==
    \/ LiveStart
    \/ LivePending
    \/ LiveRunJob
    \/ LiveSleep
    \/ LiveBackoff

NextLive ==
    \/ LiveRuns
    \/ LoopInterrupt

\* The process is scheduled and its sleeps return: the loop keeps taking steps
SpecLive == InitSched /\ [][NextLive]_vars /\ WF_vars(LiveRuns)

----------------------------------------------------------------------------
(* monitor.py and telegram_bot.py: one alert per message, with a chart *)

MaxLegacyRuns == 2                \* invocations of run_monitoring

\* What send_alert finds at chart_path: no chart (chart_path is None or names
\* no file), a file that open() cannot read, a file it can read
ChartStates == {"none", "unreadable", "readable"}

\* The alerts lists monitor_all_symbols can return: one entry per file, in
\* glob order
LegacyAlertLists ==
    {list \in UNION {[1..n -> SymbolSet] : n \in 0..Len(Symbols)} :
        \A i, j \in 1..Len(list) : list[i] = list[j] => i = j}

\* One requests.post: sendMessage ("text") or sendPhoto ("photo"), the text
\* or caption it carried and whether it went through
Attempt(kind, content, ok) == [kind |-> kind, content |-> content, ok |-> ok]
\* What a call did and how it ended: "True", "False", or "raised"
Returned(attempts, ret) == [attempts |-> attempts, ret |-> ret]
\* send_alert: the message text built for the symbol
AlertText(symbol) == <<"alert", symbol>>

\* A send_message that posts a second time when the first post failed
send_message_retrying(message, text_ok) ==
    IF text_ok
    THEN [attempts |-> <<[kind |-> "text", content |-> message, ok |-> TRUE]>>,
          ret |-> "True"]
    ELSE [attempts |-> <<[kind |-> "text", content |-> message, ok |-> FALSE],
                         [kind |-> "text", content |-> message, ok |-> FALSE]>>,
          ret |-> "False"]

\* TelegramBot.send_message: one post; a RequestException gives False
send_message(message, text_ok) ==
    Returned(<<Attempt("text", message, text_ok)>>, IF text_ok THEN "True" ELSE "False")

\* TelegramBot.send_photo: open() is inside the try, but the except clause
\* names requests.exceptions.RequestException only, so an OSError of open()
\* leaves the function; a RequestException of the post falls back to
\* send_message(caption)
send_photo(photo, caption, photo_ok, text_ok) ==
    IF photo = "unreadable" THEN Returned(<<>>, "raised")
    ELSE IF photo_ok THEN Returned(<<Attempt("photo", caption, TRUE)>>, "True")
    ELSE LET fallback == send_message(caption, text_ok)
         IN  Returned(<<Attempt("photo", caption, FALSE)>> \o fallback.attempts,
                      fallback.ret)

\* TelegramBot.send_alert: "if chart_path and os.path.exists(chart_path)"
send_alert(symbol, chart, photo_ok, text_ok) ==
    LET message == AlertText(symbol)
    IN  IF chart # "none"
        THEN send_photo(chart, message, photo_ok, text_ok)
        ELSE send_message(message, text_ok)

InitLegacy ==
    /\ PolicyIdle /\ DispatchIdle /\ CycleIdle /\ SchedIdle /\ RetentionIdle
    /\ LegacyIdle /\ StoreIdle /\ AnalysisIdle /\ outbox = <<>>

\* run_monitoring: monitor_all_symbols returned; send_alerts is entered when
\* the list is not empty
RunMonitoring ==
    /\ legacy_pc = "idle" /\ legacy_runs < MaxLegacyRuns
    /\ \E list \in LegacyAlertLists :
          /\ legacy_alerts' = list
          /\ legacy_pc' = IF list = <<>> THEN "idle" ELSE "sending"
    /\ calls' = <<>> /\ success_count' = 0
    /\ legacy_runs' = legacy_runs + 1
    /\ UNCHANGED <<anVars, storeVars, retVars, polVars, dispVars, schedVars, outbox, cycVars>>

\* A send_alerts whose for loop has no try: the first call that raises or
\* returns False ends the loop
SendOneAborting ==
    /\ legacy_pc = "sending" /\ Len(calls) < Len(legacy_alerts)
    /\ \E chart \in ChartStates, photo_ok \in BOOLEAN, text_ok \in BOOLEAN :
          LET alert == legacy_alerts[Len(calls) + 1]
              success == send_alert(alert, chart, photo_ok, text_ok)
          IN  /\ calls' = Append(calls, [symbol |-> alert, chart |-> chart,
                                         attempts |-> success.attempts,
                                         ret |-> success.ret])
              /\ success_count' = success_count + (IF success.ret = "True" THEN 1 ELSE 0)
              /\ legacy_pc' = IF success.ret = "True" THEN "sending" ELSE "idle"
    /\ UNCHANGED <<anVars, storeVars, retVars, polVars, dispVars, schedVars, outbox, cycVars,
                   legacy_alerts, legacy_runs>>

\* send_alerts: one pass of the for loop; an exception of the pass is caught
\* and the loop goes on
SendOne ==
    /\ legacy_pc = "sending" /\ Len(calls) < Len(legacy_alerts)
    /\ \E chart \in ChartStates, photo_ok \in BOOLEAN, text_ok \in BOOLEAN :
          LET alert == legacy_alerts[Len(calls) + 1]
              success == send_alert(alert, chart, photo_ok, text_ok)
          IN  /\ calls' = Append(calls, [symbol |-> alert, chart |-> chart,
                                         attempts |-> success.attempts,
                                         ret |-> success.ret])
              /\ success_count' = success_count + (IF success.ret = "True" THEN 1 ELSE 0)
    /\ UNCHANGED <<anVars, storeVars, retVars, polVars, dispVars, schedVars, outbox, cycVars,
                   legacy_pc, legacy_alerts, legacy_runs>>

\* send_alerts returns success_count; run_monitoring and the job return
SendAlertsReturns ==
    /\ legacy_pc = "sending" /\ Len(calls) = Len(legacy_alerts)
    /\ legacy_pc' = "idle"
    /\ UNCHANGED <<anVars, storeVars, retVars, polVars, dispVars, schedVars, outbox, cycVars,
                   legacy_alerts, calls, success_count, legacy_runs>>

NextLegacy == RunMonitoring \/ SendOne \/ SendAlertsReturns

SpecLegacy == InitLegacy /\ [][NextLegacy]_vars

----------------------------------------------------------------------------
(* The CSV store: save_to_csv, load_symbol_data and cleanup_old_data on the *)
(* lines of the files                                                       *)

MaxStoreOps == 3                  \* store operations in one behaviour

\* writer.writeheader(): the line of the field names
HeaderLine == [kind |-> "header", timestamp |-> 0, last_funding_rate |-> 0, oi |-> 0]
\* writer.writerow(row_data)
RowLine(timestamp, oi) ==
    [kind |-> "row", timestamp |-> timestamp, last_funding_rate |-> 0, oi |-> oi]

\* datetime.now() of a snapshot: the wall clock can repeat a value or step
\* back (the timestamps are naive local time)
StoreTimestamps == {RetainRows, RetainRows + 1}

\* pd.read_csv: the first line names the columns, the others are the rows
read_csv(lines) == IF lines = <<>> THEN <<>> ELSE Tail(lines)
\* df.to_csv(csv_file, index=False): the file is rewritten, header first
to_csv(df) == <<HeaderLine>> \o df

\* The files the store can hold when the program starts: none, one whose rows
\* are out of order, and one of RetainRows rows
ShortFile == to_csv(<<RowLine(RetainRows + 1, 100), RowLine(RetainRows, 400)>>)
LongFile == to_csv([i \in 1..RetainRows |-> RowLine(i, 100)])
StoreFiles == {<<>>, ShortFile, LongFile}

\* A writer that writes the header with every row
append_row_with_header(lines, row) == Append(Append(lines, HeaderLine), row)

\* A writer that replaces the rows of the same timestamp
append_row_replacing(lines, row) ==
    IF lines = <<>> THEN <<HeaderLine, row>>
    ELSE LET Other(l) == l.kind = "header" \/ l.timestamp # row.timestamp
         IN  Append(SelectSeq(lines, Other), row)

\* save_to_csv on one file: opened in mode 'a'; the header is written when
\* os.path.isfile was False before the open
append_row(lines, row) ==
    IF lines = <<>> THEN <<HeaderLine, row>> ELSE Append(lines, row)

\* cleanup_old_data on one file
cleanup_file(lines) ==
    IF lines = <<>> THEN lines
    ELSE LET cleaned == compact(read_csv(lines))
         IN  IF cleaned.written THEN to_csv(cleaned.rows) ELSE lines

InitStore ==
    /\ PolicyIdle /\ DispatchIdle /\ CycleIdle /\ SchedIdle /\ RetentionIdle
    /\ LegacyIdle /\ AnalysisIdle /\ outbox = <<>>
    /\ disk \in [SymbolSet -> StoreFiles]
    /\ load_ret = None /\ last_op = NoOp /\ store_ops = 0

\* save_to_csv(symbol, data)
StoreAppend ==
    /\ store_ops < MaxStoreOps
    /\ \E symbol \in SymbolSet, timestamp \in StoreTimestamps :
          LET row == RowLine(timestamp, 100)
          IN  /\ disk' = [disk EXCEPT ![symbol] = append_row(@, row)]
              /\ last_op' = [op |-> "append", symbol |-> symbol, rows |-> <<row>>,
                            before |-> disk]
    /\ store_ops' = store_ops + 1
    /\ UNCHANGED <<anVars, legVars, retVars, polVars, dispVars, schedVars, outbox, cycVars, load_ret>>

\* load_symbol_data(symbol)
StoreLoad ==
    /\ store_ops < MaxStoreOps
    /\ \E symbol \in SymbolSet :
          /\ load_ret' = Some([symbol |-> symbol,
                               df |-> load_symbol_data(read_csv(disk[symbol]))])
          /\ last_op' = [op |-> "load", symbol |-> symbol, rows |-> <<>>, before |-> disk]
    /\ store_ops' = store_ops + 1
    /\ UNCHANGED <<anVars, legVars, retVars, polVars, dispVars, schedVars, outbox, cycVars, disk>>

\* cleanup_old_data(): every file in turn; a file whose read or write raised
\* is left as it was
StoreCleanup ==
    /\ store_ops < MaxStoreOps
    /\ \E failed \in SUBSET SymbolSet :
          disk' = [s \in SymbolSet |->
                     IF s \in failed THEN disk[s] ELSE cleanup_file(disk[s])]
    /\ last_op' = [op |-> "cleanup", symbol |-> "", rows |-> <<>>, before |-> disk]
    /\ store_ops' = store_ops + 1
    /\ UNCHANGED <<anVars, legVars, retVars, polVars, dispVars, schedVars, outbox, cycVars, load_ret>>

NextStore == StoreAppend \/ StoreLoad \/ StoreCleanup

SpecStore == InitStore /\ [][NextStore]_vars

----------------------------------------------------------------------------
(* data_analyzer.DataAnalyzer: changes over a period and their rankings *)

MaxTopN == 3                      \* largest top_n handed to find_extreme_changes
MaxCutoff == 2                    \* latest cutoff_time

\* get_available_symbols: sorted(symbols)
AnalysisSymbols == <<"ADAUSDT", "BTCUSDT", "ETHUSDT">>
AnalysisSymbolSet == {AnalysisSymbols[i] : i \in 1..Len(AnalysisSymbols)}

\* A float: a quotient n/d with d > 0, or inf, or nan
Num(n, d) == [k |-> "num", n |-> n, d |-> d]
Inf == [k |-> "inf", n |-> 1, d |-> 1]
NaN == [k |-> "nan", n |-> 0, d |-> 1]
\* a < b on floats: every comparison with nan is False
Lt(a, b) ==
    /\ a.k # "nan" /\ b.k # "nan"
    /\ a.k # "inf"
    /\ b.k = "inf" \/ a.n * b.d < b.n * a.d

\* The rows of a file: a snapshot whose requests failed (zeros), and two
\* snapshots with values
AnalysisRow(timestamp, v, oi) ==
    [timestamp |-> timestamp, mark_price |-> 100 * v, basis |-> v,
     basis_percent |-> 3 * v, last_funding_rate |-> 2 * v, oi |-> oi,
     long_short_account_ratio |-> v, taker_buy_sell_ratio |-> v]
RowKinds == {<<0, 0>>, <<1, 100>>, <<2, 400>>}
\* A file of n rows with timestamps 1..n: the first and the last row vary
AnalysisSeries(n, first, last) ==
    [i \in 1..n |->
        IF i = 1 THEN AnalysisRow(i, first[1], first[2])
        ELSE IF i = n THEN AnalysisRow(i, last[1], last[2])
        ELSE AnalysisRow(i, 1, 100)]
AnalysisFiles ==
    {<<>>, AnalysisSeries(1, <<1, 100>>, <<1, 100>>)}
        \cup {AnalysisSeries(n, f, l) : n \in {2, 3}, f \in RowKinds, l \in RowKinds}

\* {"error": ...}
ErrorResult(symbol) ==
    [error |-> TRUE, symbol |-> symbol, data_points |-> 0,
     mark_price_change |-> 0, mark_price_change_pct |-> Num(0, 1),
     basis_change |-> 0, basis_percent_change |-> Num(0, 1),
     funding_rate_change |-> Num(0, 1), oi_change |-> 0,
     oi_change_pct |-> Num(0, 1), account_ratio_change |-> 0,
     taker_ratio_change |-> 0, latest_timestamp |-> 0, oldest_timestamp |-> 0]

\* The filter left out
whole_file(df, cutoff) == df
\* df[df['timestamp'] >= cutoff_time]
since(df, cutoff) == SelectSeq(df, LAMBDA row : row.timestamp >= cutoff)

\* (latest - oldest) / oldest * 100 where oldest is not 0
Pct(latest, oldest) == Num(100 * (latest - oldest), oldest)
\* the same with oldest = 0: the values of a row are numpy numbers, whose
\* division by zero gives nan (0 / 0) or inf and raises nothing
PctByZero(latest) == IF latest = 0 THEN NaN ELSE Inf

\* A percentage that is 0 whenever the oldest value is 0
guarded_pct(latest, oldest) ==
    IF oldest # 0 THEN [k |-> "num", n |-> 100 * (latest - oldest), d |-> oldest]
    ELSE [k |-> "num", n |-> 0, d |-> 1]

\* 'mark_price_change_pct': no test of oldest['mark_price']
mark_price_change_pct(latest, oldest) ==
    IF oldest # 0 THEN Pct(latest, oldest) ELSE PctByZero(latest)

\* 'oi_change_pct': "... if oldest['oi'] != 0 else 0"
oi_change_pct(latest, oldest) ==
    IF oldest # 0 THEN Pct(latest, oldest) ELSE Num(0, 1)

\* DataAnalyzer.analyze_changes, given what load_symbol_data returns for the
\* symbol (its FileNotFoundError ends in the except clause)
analyze_changes(symbol, df, cutoff) ==
    IF Len(df) < 2 THEN ErrorResult(symbol)
    ELSE
    LET recent_data == since(df, cutoff) IN
    IF Len(recent_data) < 2 THEN ErrorResult(symbol)
    ELSE
    LET latest == recent_data[Len(recent_data)]
        oldest == recent_data[1]
    IN  [error |-> FALSE, symbol |-> symbol, data_points |-> Len(recent_data),
        mark_price_change |-> latest.mark_price - oldest.mark_price,
        mark_price_change_pct |->
            mark_price_change_pct(latest.mark_price, oldest.mark_price),
        basis_change |-> latest.basis - oldest.basis,
        basis_percent_change |-> Num(latest.basis_percent - oldest.basis_percent, 1),
        funding_rate_change |->
            Num(latest.last_funding_rate - oldest.last_funding_rate, 1),
        oi_change |-> latest.oi - oldest.oi,
        oi_change_pct |-> oi_change_pct(latest.oi, oldest.oi),
        account_ratio_change |->
            latest.long_short_account_ratio - oldest.long_short_account_ratio,
        taker_ratio_change |-> latest.taker_buy_sell_ratio - oldest.taker_buy_sell_ratio,
        latest_timestamp |-> latest.timestamp,
        oldest_timestamp |-> oldest.timestamp]

\* list.reverse()
Reversed(list) == [i \in 1..Len(list) |-> list[Len(list) + 1 - i]]

\* list.sort() on at most three items, with the comparisons CPython makes:
\* the run that begins the list is found (strictly descending, and then
\* reversed, or else non-descending), and an item left over is placed by
\* binary insertion
timsort(list, key) ==
    LET less(x, y) == Lt(x[key], y[key])
        a == list
    IN  IF Len(a) < 2 THEN a
        ELSE IF Len(a) = 2
        THEN IF less(a[2], a[1]) THEN <<a[2], a[1]>> ELSE a
        ELSE IF less(a[2], a[1])
        THEN IF less(a[3], a[2]) THEN <<a[3], a[2], a[1]>>
             ELSE \* run a[2], a[1]; a[3] is inserted
                  IF less(a[3], a[1])
                  THEN IF less(a[3], a[2]) THEN <<a[3], a[2], a[1]>>
                       ELSE <<a[2], a[3], a[1]>>
                  ELSE <<a[2], a[1], a[3]>>
        ELSE IF ~less(a[3], a[2]) THEN a
             ELSE \* run a[1], a[2]; a[3] is inserted
                  IF less(a[3], a[2])
                  THEN IF less(a[3], a[1]) THEN <<a[3], a[1], a[2]>>
                       ELSE <<a[1], a[3], a[2]>>
                  ELSE a

\* sorted(all_changes, key=..., reverse=...): with reverse the list is
\* reversed before and after the sort
sorted(list, key, reverse) ==
    IF reverse THEN Reversed(timsort(Reversed(list), key)) ELSE timsort(list, key)

\* find_extreme_changes: the changes of the symbols that gave no error
all_changes_of(fs, cutoff) ==
    LET each == [i \in 1..Len(AnalysisSymbols) |->
                    analyze_changes(AnalysisSymbols[i], fs[AnalysisSymbols[i]],
                                    cutoff)]
    IN  SelectSeq(each, LAMBDA c : ~c.error)

\* The slice that takes the last top_n items
last_n(list, top_n) == tail(list, top_n)

\* sorted(...)[:top_n]
top(list, top_n) == IF Len(list) <= top_n THEN list ELSE SubSeq(list, 1, top_n)

\* DataAnalyzer.find_extreme_changes
find_extreme_changes(all_changes, top_n) ==
    [price_increase |-> top(sorted(all_changes, "mark_price_change_pct", TRUE), top_n),
     price_decrease |-> top(sorted(all_changes, "mark_price_change_pct", FALSE), top_n),
     basis_increase |-> top(sorted(all_changes, "basis_percent_change", TRUE), top_n),
     basis_decrease |-> top(sorted(all_changes, "basis_percent_change", FALSE), top_n),
     funding_increase |-> top(sorted(all_changes, "funding_rate_change", TRUE), top_n),
     funding_decrease |-> top(sorted(all_changes, "funding_rate_change", FALSE), top_n),
     oi_increase |-> top(sorted(all_changes, "oi_change_pct", TRUE), top_n),
     oi_decrease |-> top(sorted(all_changes, "oi_change_pct", FALSE), top_n)]

InitAnalysis ==
    /\ PolicyIdle /\ DispatchIdle /\ CycleIdle /\ SchedIdle /\ RetentionIdle
    /\ LegacyIdle /\ StoreIdle /\ outbox = <<>>
    /\ an_files \in [AnalysisSymbolSet -> AnalysisFiles]
    /\ cutoff_time \in 1..MaxCutoff
    /\ changes = None /\ results = None

\* analyze_changes(symbol, hours)
AnalyzeChanges ==
    /\ changes = None /\ results = None
    /\ \E symbol \in AnalysisSymbolSet :
          changes' = Some(analyze_changes(symbol, an_files[symbol], cutoff_time))
    /\ UNCHANGED <<storeVars, legVars, retVars, polVars, dispVars, schedVars, outbox,
                   cycVars, an_files, cutoff_time, results>>

\* find_extreme_changes(hours, top_n)
FindExtremeChanges ==
    /\ changes = None /\ results = None
    /\ \E top_n \in 1..MaxTopN :
          results' = Some([top_n |-> top_n,
                           rankings |-> find_extreme_changes(
                               all_changes_of(an_files, cutoff_time),
                               top_n)])
    /\ UNCHANGED <<storeVars, legVars, retVars, polVars, dispVars, schedVars, outbox,
                   cycVars, an_files, cutoff_time, changes>>

NextAnalysis == AnalyzeChanges \/ FindExtremeChanges

SpecAnalysis == InitAnalysis /\ [][NextAnalysis]_vars

----------------------------------------------------------------------------
(* The policy claims, stated on the file's rows without the policy's helpers *)

\* The row with the greatest timestamp
NewestRow(rows) ==
    CHOOSE r \in {rows[i] : i \in 1..Len(rows)} :
        \A i \in 1..Len(rows) : rows[i].timestamp <= r.timestamp

\* Sum of the OI of the k rows with the greatest timestamps
RECURSIVE SumOver(_, _)
SumOver(rows, idx) ==
    IF idx = {} THEN 0
    ELSE LET i == CHOOSE j \in idx : TRUE IN rows[i].oi + SumOver(rows, idx \ {i})
NewestIdx(rows, k) ==
    {i \in 1..Len(rows) :
        Cardinality({j \in 1..Len(rows) : rows[j].timestamp > rows[i].timestamp}) < k}
SumNewest(rows, k) == SumOver(rows, NewestIdx(rows, k))

FundingExceeds(rows) == Abs(NewestRow(rows).last_funding_rate) > 10
\* (s3/3) / (s10/10) is defined and > 2
OIExceeds(rows) ==
    /\ Len(rows) >= 10
    /\ SumNewest(rows, 10) # 0
    /\ 10 * SumNewest(rows, 3) > 2 * 3 * SumNewest(rows, 10)
CapSmall(cap) == cap = None \/ Val(cap) < 10

\* C1: an instrument whose market cap is unknown or below the threshold
\* triggers iff |funding rate| of its latest snapshot exceeds the funding
\* threshold, whatever its OI history and however many rows (>= 1) it has.
C1_SmallCapRule ==
    (result # None /\ Len(csv_rows) >= 1 /\ CapSmall(Val(result).market_cap))
        => (Val(result).condition_met <=> FundingExceeds(csv_rows))

\* A small-cap instrument with a full window of zero OI (no ratio) that triggers
C1_Witness ==
    /\ result # None /\ Val(result).market_cap = Some(5)
    /\ Len(csv_rows) >= 10 /\ SumNewest(csv_rows, 10) = 0
    /\ Val(result).condition_met

\* C2: an instrument with market cap >= threshold triggers iff the funding
\* condition holds and the OI ratio is defined and exceeds the OI threshold.
C2_LargeCapRule ==
    (result # None /\ Len(csv_rows) >= 1 /\ ~CapSmall(Val(result).market_cap))
        => (Val(result).condition_met
                <=> (FundingExceeds(csv_rows) /\ OIExceeds(csv_rows)))

\* A large-cap instrument that triggers
C2_Witness ==
    /\ result # None /\ Val(result).market_cap = Some(50)
    /\ Val(result).condition_met

\* C3: a large-cap instrument with fewer than 10 rows never triggers; the
\* evaluation returns a verdict with condition_met false and no OI ratio.
C3_LargeCapShortSeries ==
    (result # None /\ ~CapSmall(Val(result).market_cap) /\ Len(csv_rows) < 10)
        => (~Val(result).condition_met /\ Val(result).oi_ratio = None)

\* A large-cap instrument with 1..9 rows and a funding rate over the threshold,
\* evaluated
C3_Witness ==
    /\ result # None /\ ~CapSmall(Val(result).market_cap)
    /\ Len(csv_rows) \in 1..9 /\ FundingExceeds(csv_rows)
    /\ ~Val(result).condition_met

----------------------------------------------------------------------------
(* The dispatch claims *)

KeyKnown(a) == a.funding_rate # None
AbsFr(a) == IF Val(a.funding_rate) < 0 THEN 0 - Val(a.funding_rate) ELSE Val(a.funding_rate)
\* the position of an event in the input list (symbols are distinct)
InputPos(a) == CHOOSE i \in 1..Len(alerts_arg) : alerts_arg[i].symbol = a.symbol

\* C6: the combined notification lists a permutation of the input events, in
\* non-increasing |funding rate|, events with unknown funding rate after all
\* events with a known one, events of equal rank in their input order.
C6_CombinedOrder ==
    \A m \in 1..Len(outbox) :
        outbox[m].kind = "combined" =>
        LET lines == outbox[m].lines IN
        /\ Len(lines) = Len(alerts_arg)
        /\ \A i \in 1..Len(alerts_arg) : \E j \in 1..Len(lines) : lines[j] = alerts_arg[i]
        /\ \A i, j \in 1..Len(lines) : i < j =>
              /\ KeyKnown(lines[j]) => KeyKnown(lines[i])
              /\ (KeyKnown(lines[i]) /\ KeyKnown(lines[j])) => AbsFr(lines[i]) >= AbsFr(lines[j])
              /\ ( \/ (~KeyKnown(lines[i]) /\ ~KeyKnown(lines[j]))
                   \/ (KeyKnown(lines[i]) /\ KeyKnown(lines[j]) /\ AbsFr(lines[i]) = AbsFr(lines[j])) )
                 => InputPos(lines[i]) < InputPos(lines[j])

\* A combined message whose input began with an unknown-rate event and held a
\* tie between -0.0020 and 0.0020 behind a smaller rate
C6_Witness ==
    /\ Len(outbox) = 1 /\ outbox[1].kind = "combined"
    /\ Len(alerts_arg) = 4
    /\ alerts_arg[1].funding_rate = None
    /\ alerts_arg[2].funding_rate = Some(11)
    /\ alerts_arg[3].funding_rate = Some(-20)
    /\ alerts_arg[4].funding_rate = Some(20)

----------------------------------------------------------------------------
(* The cycle claims *)

\* the alert and combined-alert messages among the messages of the running job
IsNotification(m) == m.kind \in {"alert", "combined"}
Notifications == SelectSeq(outbox, IsNotification)
SymbolsOf(list) == {list[i].symbol : i \in 1..Len(list)}

\* C4: every alert event the policy triggers in a cycle is handed to the
\* notification transport in that cycle: each entry of the alerts list has a
\* send attempt.
C4_EveryAlertSent ==
    \A i \in 1..Len(alerts) :
        \E m \in 1..Len(Notifications) : alerts[i].symbol \in SymbolsOf(Notifications[m].lines)

\* C5: a cycle that triggered k >= 1 alert events has handed exactly one
\* notification to the transport when monitor_all_symbols returns, and that
\* notification lists all k instruments.
C5_OneCombinedNotification ==
    (job = "monitor" /\ mon_todo = {} /\ Len(alerts) >= 1)
        => /\ Len(Notifications) = 1
           /\ SymbolsOf(Notifications[1].lines) = SymbolsOf(alerts)

----------------------------------------------------------------------------
(* The scheduler claims, checked under SpecSched                              *)

PassDone == phase = "pass" /\ pending = <<>>

\* C7: while no exception has left a job function, a job that failed inside
\* its try block does not stop or delay the loop: the loop is never in its
\* 60-second wait and never ended except by an interrupt, and every job
\* invocation began within MaxJobSecs of its due time, the time another job of
\* the same second may take, whether or not that job failed.
C7_FailureIsolated ==
    escaped = 0 =>
        /\ pc \in {"start", "loop", "stopped"}
        /\ pc = "stopped" => interrupted
        /\ phase # "backoff"
        /\ \A j \in Jobs : lateness[j] <= MaxJobSecs
C7_Witness ==
    /\ escaped = 0 /\ pc = "loop" /\ PassDone
    /\ pass_log = << [job |-> "collection", outcome |-> "fail"],
                     [job |-> "status", outcome |-> "ok"] >>
    /\ next_run["status"] >= now + StatusEvery - MaxJobSecs

\* C8: once an exception has reached the main loop, the loop is neither
\* listing nor running jobs until 60 seconds have passed since, it is back to
\* its ticking when they have, and it has ended only if interrupted.
C8_BackoffThenResume ==
    since_escape # -1 =>
        /\ phase \in {"tick", "pass"} => since_escape >= 60
        /\ phase = "backoff" => since_escape < 60 /\ pending = <<>>
        /\ pc \in {"loop", "stopped"}
        /\ pc = "stopped" => interrupted
C8_Witness ==
    /\ since_escape = 60 /\ pc = "loop" /\ PassDone
    /\ Len(pass_log) >= 1 /\ pass_log[1].outcome = "ok"
    /\ \E j \in Jobs : next_run[j] = now + Interval(j)

----------------------------------------------------------------------------
(* The liveness claim, checked under SpecLive                                 *)

Fired(j) == \E i \in 1..Len(pass_log) : pass_log[i].job = j

----------------------------------------------------------------------------
(* The collection claims, checked under Spec                                  *)

Attempted == Len(Symbols) - Len(todo)
AppendedThisCycle ==
    {s \in SymbolSet : files[s] # <<>> /\ files[s][Len(files[s])].timestamp >= clock - Attempted}

\* C12: in collect_data every instrument the loop has passed is counted once,
\* as a success with its row appended or as an error, and the loop is left only
\* after the whole batch: an instrument that failed does not keep a later one
\* from being fetched and appended.
C12_ErrorIsolation ==
    /\ job = "collect" =>
          /\ counts.success_count + counts.error_count = Attempted
          /\ Cardinality(AppendedThisCycle) = counts.success_count
    /\ job = "monitor" => counts.success_count + counts.error_count = Len(Symbols)
C12_Witness ==
    /\ job = "collect" /\ todo = <<>> /\ pc = "loop"
    /\ counts = [success_count |-> 1, error_count |-> 1]
    /\ AppendedThisCycle = {Symbols[2]}

\* C13: no series holds a record built from requests that failed (the
\* instrument was skipped), and such an instrument counts as an error.
IsFailedSnapshot(row) ==
    /\ row.oi = get_data_snapshot(None).oi
    /\ row.last_funding_rate = get_data_snapshot(None).last_funding_rate
C13_FailedFetchSkipped ==
    \A s \in SymbolSet : \A i \in 1..Len(files[s]) : ~IsFailedSnapshot(files[s][i])

\* C14: with the bot token or the chat id not configured, the collection job
\* still runs: once run() is past its start a collection has begun.
C14_CollectsWithoutCredentials ==
    (~config_ok /\ pc # "start") => runs.collection >= 1

----------------------------------------------------------------------------
(* The retention claims, checked under SpecRetention                          *)

RetentionPassDone == job = "monitor" /\ stats.cleanups >= 1
Over(fs) == {s \in SymbolSet : Len(fs[s]) > 1000}
DirSize == other_bytes + SumSizes(files, SymbolSet)
CyclesBegun == runs.collection - (MaxCycles - 1)

\* C15: when the loop body of cleanup_old_data completes for a file of n rows:
\* for n <= 1000 the file is as it was and nothing is added to the rows
\* removed or to the files cleaned; for n > 1000 the file holds exactly its
\* last 1000 rows, in order and as they were, and n - 1000 is added to the
\* rows removed.
C15_CompactKeepsNewest ==
    [][(df_read # None /\
        cleanup_result'.files_processed = cleanup_result.files_processed + 1) =>
       LET s == Val(df_read).symbol
           n == Len(files[s])
       IN  /\ \A t \in SymbolSet \ {s} : files'[t] = files[t]
           /\ n <= 1000 =>
                /\ files'[s] = files[s]
                /\ cleanup_result'.total_rows_removed = cleanup_result.total_rows_removed
                /\ cleanup_result'.files_cleaned = cleanup_result.files_cleaned
           /\ n > 1000 =>
                /\ files'[s] = SubSeq(files[s], n - 999, n)
                /\ cleanup_result'.total_rows_removed =
                       cleanup_result.total_rows_removed + (n - 1000)
                /\ cleanup_result'.files_cleaned = cleanup_result.files_cleaned + 1]_vars
C15_Witness ==
    /\ job = "cleanup" /\ df_read = None /\ clean_todo = {}
    /\ cleanup_result = [files_processed |-> 2, files_cleaned |-> 1,
                         total_rows_removed |-> MaxRows - 1000]
    /\ Len(files[Symbols[1]]) = 1000
    /\ files[Symbols[1]][1].timestamp = MaxRows - 999
    /\ files[Symbols[1]][1000].timestamp = MaxRows
    /\ Len(files[Symbols[2]]) = 800

C17_RetentionGuard ==
    [][/\ (job' = "cleanup" /\ job # "cleanup") =>
             (job = "collect" /\ todo = <<>> /\ DirSize >= 838860800)
       /\ (job = "collect" /\ todo = <<>> /\ DirSize < 838860800) =>
             (files' = files /\ job' = "monitor")
       /\ files' # files => ((job = "collect" /\ todo # <<>>) \/ job = "cleanup")
       /\ stats'.cleanups <= CyclesBegun']_vars
C17_Witness ==
    /\ job = "monitor" /\ stats.cleanups = 0 /\ DirSize < 838860800
    /\ counts.success_count = 2
    /\ Over(files) = SymbolSet

\* C18: while cleanup_old_data holds the rows it read from a file and has not
\* written them back, the file is as it was read; and the write keeps the
\* file's last row, so the cycle's append is not lost.
C18_NoAppendDuringCompaction ==
    [][/\ df_read' # None =>
             (job' = "cleanup" /\ files'[Val(df_read').symbol] = Val(df_read').rows)
       /\ (job = "cleanup" /\ files' # files) =>
             \A s \in SymbolSet : files'[s][Len(files'[s])] = files[s][Len(files[s])]]_vars
C18_Witness ==
    /\ df_read # None /\ job = "cleanup"
    /\ Len(Val(df_read).rows) = MaxRows + 1
    /\ Val(df_read).rows[MaxRows + 1].timestamp > MaxRows

----------------------------------------------------------------------------
(* The OI ratio claims, checked under SpecPolicy                              *)

ConstantOI == \A i, j \in 1..Len(csv_rows) : csv_rows[i].oi = csv_rows[j].oi
RatioOfSeries == calculate_oi_ratio(sort_values(csv_rows))
IsOne(ratio) == ratio # None /\ Val(ratio).num = Val(ratio).den

\* C19: for every series of fewer than 10 rows calculate_oi_ratio returns
\* None, and check_conditions reports no ratio for it.
C19_ShortSeriesNoRatio ==
    Len(csv_rows) < 10 =>
        /\ RatioOfSeries = None
        /\ result # None => Val(result).oi_ratio = None
C19_Witness ==
    /\ Len(csv_rows) = 9 /\ SumOI(csv_rows) > 0
    /\ result # None /\ ~CapSmall(Val(result).market_cap)
    /\ Val(result).oi_ratio = None

\* C20 as stated: for every series of 10 rows or more with the same open
\* interest in every row the ratio is exactly 1.
C20_ConstantGivesOne ==
    (Len(csv_rows) >= 10 /\ ConstantOI) => IsOne(RatioOfSeries)
\* C20: for a series of 10 rows or more with the same open interest in every
\* row, the ratio is exactly 1 when that open interest is not zero, and None
\* when it is zero.
C20_ConstantGivesOneOrNone ==
    (Len(csv_rows) >= 10 /\ ConstantOI) =>
        IF csv_rows[1].oi = 0 THEN RatioOfSeries = None ELSE IsOne(RatioOfSeries)
C20_Witness ==
    /\ Len(csv_rows) >= 10 /\ ConstantOI /\ csv_rows[1].oi # 0
    /\ result # None /\ ~CapSmall(Val(result).market_cap)
    /\ IsOne(Val(result).oi_ratio)

\* C21: for a series of 10 rows or more whose last 10 open-interest values
\* sum to zero, calculate_oi_ratio returns None: no number, so neither 0 nor a
\* quotient with divisor 0; check_conditions reports no ratio and, on the
\* large-cap tier, does not trigger.
C21_ZeroMeanNoRatio ==
    (Len(csv_rows) >= 10 /\ SumNewest(csv_rows, 10) = 0) =>
        /\ RatioOfSeries = None
        /\ result # None =>
              /\ Val(result).oi_ratio = None
              /\ ~CapSmall(Val(result).market_cap) => ~Val(result).condition_met
C21_Witness ==
    /\ Len(csv_rows) = 11 /\ csv_rows[1].oi > 0 /\ SumNewest(csv_rows, 10) = 0
    /\ result # None /\ ~CapSmall(Val(result).market_cap)
    /\ FundingExceeds(csv_rows)
    /\ Val(result).oi_ratio = None /\ ~Val(result).condition_met

\* The last 10 open-interest values are seven 100s followed by three 400s
StepSeries(rows) ==
    /\ Len(rows) >= 10
    /\ \A k \in 1..10 :
          rows[Len(rows) - 10 + k].oi = IF k <= 7 THEN 100 ELSE 400

\* C22 as stated: on such a series the ratio is about 2.33 (within 0.005 of
\* it) and exceeds the threshold 2.0.
C22_RatioAboutTwoPointThreeThree ==
    StepSeries(csv_rows) =>
        /\ RatioOfSeries # None
        /\ 2325 * Val(RatioOfSeries).den <= 1000 * Val(RatioOfSeries).num
        /\ 1000 * Val(RatioOfSeries).num <= 2335 * Val(RatioOfSeries).den
        /\ RatioGreater(Val(RatioOfSeries), OI_RATIO_THRESHOLD)

\* C22 amended: on such a series the ratio is 400 / 190 (about 2.105: the mean
\* of the last 10 is 190), it exceeds the threshold 2.0, and a large-cap
\* symbol whose funding rate is over its threshold triggers.
C22_RatioIsFortyNineteenths ==
    StepSeries(csv_rows) =>
        /\ RatioOfSeries # None
        /\ 19 * Val(RatioOfSeries).num = 40 * Val(RatioOfSeries).den
        /\ RatioGreater(Val(RatioOfSeries), OI_RATIO_THRESHOLD)
        /\ (result # None /\ ~CapSmall(Val(result).market_cap)) =>
              /\ Val(result).oi_ratio = RatioOfSeries
              /\ Val(result).condition_met = FundingExceeds(csv_rows)
C22_Witness ==
    /\ StepSeries(csv_rows) /\ Len(csv_rows) = 11
    /\ result # None /\ ~CapSmall(Val(result).market_cap)
    /\ FundingExceeds(csv_rows)
    /\ Val(result).oi_ratio # None
    /\ 19 * Val(Val(result).oi_ratio).num = 40 * Val(Val(result).oi_ratio).den
    /\ Val(result).condition_met

----------------------------------------------------------------------------
(* Claims about the determinism of the policy *)

\* Other series: the oldest row dropped, other funding rates before the latest
\* row, every open interest doubled
WithOlderFr(rows, g) ==
    [i \in 1..Len(rows) |->
        IF i = Len(rows) THEN rows[i]
        ELSE [rows[i] EXCEPT !.last_funding_rate = g]]
ScaleOI(rows, c) == [i \in 1..Len(rows) |-> [rows[i] EXCEPT !.oi = c * @]]
Variants(rows) ==
    (IF Len(rows) > 1 THEN {tail(rows, Len(rows) - 1)} ELSE {})
        \cup {WithOlderFr(rows, g) : g \in {0, FrHigh}}
        \cup {ScaleOI(rows, 2)}

SameRatio(r1, r2) ==
    \/ r1 = None /\ r2 = None
    \/ r1 # None /\ r2 # None /\ Val(r1).num * Val(r2).den = Val(r2).num * Val(r1).den
\* The same funding rate and the same OI ratio
SameInputs(a, b) ==
    /\ NewestRow(a).last_funding_rate = NewestRow(b).last_funding_rate
    /\ SameRatio(calculate_oi_ratio(sort_values(a)), calculate_oi_ratio(sort_values(b)))

\* C23: the verdict of check_conditions depends on the funding rate, the OI
\* ratio and the market cap only: evaluating the same series again gives the
\* same result, every other series with the same funding rate and OI ratio
\* gets the same condition_met under the same market cap, and the step that
\* evaluates changes neither a stored series nor a counter.
C23_Deterministic ==
    /\ [](result # None =>
            /\ check_conditions(csv_rows, Val(result).market_cap) = Val(result)
            /\ Len(csv_rows) > 0 =>
                  \A v \in Variants(csv_rows) :
                      SameInputs(csv_rows, v) =>
                          check_conditions(v, Val(result).market_cap).condition_met
                              = Val(result).condition_met)
    /\ [][result' # result =>
             /\ csv_rows' = csv_rows /\ files' = files
             /\ stats' = stats /\ counts' = counts /\ runs' = runs]_vars
C23_Witness ==
    /\ result # None /\ Len(csv_rows) = 11
    /\ ~CapSmall(Val(result).market_cap) /\ Val(result).condition_met
    /\ \E v \in Variants(csv_rows) :
          /\ v # csv_rows /\ Len(v) = 10 /\ SameInputs(csv_rows, v)
          /\ check_conditions(v, Val(result).market_cap).condition_met
    /\ \E v \in Variants(csv_rows) :
          /\ v[1].last_funding_rate # csv_rows[1].last_funding_rate
          /\ SameInputs(csv_rows, v)

----------------------------------------------------------------------------
(* Claims about the alerts of one cycle *)

AlertsFor(symbol) == {i \in 1..Len(alerts) : alerts[i].symbol = symbol}
NotificationsFor(symbol) ==
    {m \in 1..Len(Notifications) : symbol \in SymbolsOf(Notifications[m].lines)}

\* C24: the alerts list of one monitoring pass holds at most one entry per
\* symbol, and at most one alert message per symbol is handed to the
\* transport, whatever the number of rows in the symbol's file.
C24_OneAlertPerSymbol ==
    \A symbol \in SymbolSet :
        /\ Cardinality(AlertsFor(symbol)) <= 1
        /\ Cardinality(NotificationsFor(symbol)) <= 1
C24_Witness ==
    /\ job = "monitor" /\ mon_todo = {}
    /\ \E symbol \in SymbolSet :
          /\ Len(files[symbol]) >= MinRows
          /\ Cardinality(AlertsFor(symbol)) = 1
          /\ Cardinality(NotificationsFor(symbol)) = 1
    /\ \E symbol \in SymbolSet :
          Len(files[symbol]) > MinRows /\ Cardinality(AlertsFor(symbol)) = 1
    /\ Len(alerts) = Len(Symbols)

----------------------------------------------------------------------------
(* Claims about the delivery of one alert *)

AttemptsOf(call, kind) ==
    {k \in 1..Len(call.attempts) : call.attempts[k].kind = kind}
\* send_alert found a chart and no sendPhoto went through
PhotoFailed(call) ==
    /\ call.chart # "none"
    /\ \A k \in AttemptsOf(call, "photo") : ~call.attempts[k].ok

\* C25: whenever send_alert had a chart and the photo was not delivered, the
\* alert's text was posted with sendMessage and the call returned the outcome
\* of that post.
C25_PhotoFailureFallsBackToText ==
    \A i \in 1..Len(calls) :
        PhotoFailed(calls[i]) =>
            \E k \in AttemptsOf(calls[i], "text") :
                /\ calls[i].attempts[k].content = AlertText(calls[i].symbol)
                /\ calls[i].ret = IF calls[i].attempts[k].ok THEN "True" ELSE "False"

SucceededCalls == {i \in 1..Len(calls) : calls[i].ret = "True"}

\* C26: no post is repeated: one call of send_alert makes at most one
\* sendMessage post and at most one sendPhoto post, the photo first; when the
\* last post of the call failed the call returns False, and send_alerts
\* counts only the calls that returned True.
C26_NoRetry ==
    /\ \A i \in 1..Len(calls) :
          LET a == calls[i].attempts IN
          /\ Cardinality(AttemptsOf(calls[i], "text")) <= 1
          /\ Cardinality(AttemptsOf(calls[i], "photo")) <= 1
          /\ \A p \in AttemptsOf(calls[i], "photo"), t \in AttemptsOf(calls[i], "text") :
                p < t /\ ~a[p].ok
          /\ (a # <<>> /\ ~a[Len(a)].ok) => calls[i].ret = "False"
          /\ calls[i].ret = "True" => (a # <<>> /\ a[Len(a)].ok)
    /\ success_count = Cardinality(SucceededCalls)
C26_Witness ==
    /\ Len(calls) = 2 /\ legacy_pc = "idle"
    /\ calls[1].attempts = <<Attempt("photo", AlertText(calls[1].symbol), FALSE),
                             Attempt("text", AlertText(calls[1].symbol), FALSE)>>
    /\ calls[1].ret = "False"
    /\ calls[2].attempts = <<Attempt("text", AlertText(calls[2].symbol), FALSE)>>
    /\ calls[2].ret = "False"
    /\ success_count = 0

\* C27: when send_alerts has returned, its loop has made one send_alert call
\* for every alert of the list, in order, whatever the other calls returned
\* or raised, and every call that found no chart or a readable one has posted;
\* afterwards the next run_monitoring can begin.
C27_NotificationFailureIsolated ==
    /\ Len(calls) <= Len(legacy_alerts)
    /\ \A i \in 1..Len(calls) :
          /\ calls[i].symbol = legacy_alerts[i]
          /\ calls[i].chart # "unreadable" => calls[i].attempts # <<>>
    /\ legacy_pc = "idle" =>
          /\ Len(calls) = Len(legacy_alerts)
          /\ legacy_runs < MaxLegacyRuns => ENABLED RunMonitoring
C27_Witness ==
    /\ legacy_pc = "idle" /\ legacy_runs = 2 /\ Len(calls) = 2
    /\ calls[1].ret = "False" /\ calls[1].chart = "readable"
    /\ calls[2].ret = "True" /\ calls[2].attempts # <<>>

----------------------------------------------------------------------------
(* Claims about the CSV store *)

Count(seq, r) == Cardinality({i \in 1..Len(seq) : seq[i] = r})
\* The same records, each as often
SameRecords(d, rows) ==
    /\ Len(d) = Len(rows)
    /\ d = rows \/ \A i \in 1..Len(rows) : Count(d, rows[i]) = Count(rows, rows[i])
NonDecreasing(d) == \A i \in 2..Len(d) : d[i - 1].timestamp <= d[i].timestamp
\* The rows of the file as they stand on disk: the lines after the first
RowsOnDisk(symbol) == SubSeq(disk[symbol], 2, Len(disk[symbol]))

\* C28: load_symbol_data returns the rows of the symbol's file, every one of
\* them as often as the file holds it, in non-decreasing order of timestamp,
\* whatever their order in the file; with no file it reports that (None, or
\* FileNotFoundError in DataAnalyzer) and never an empty series.
C28_LoadSortedAndComplete ==
    last_op.op = "load" =>
        LET symbol == Val(load_ret).symbol
            df == Val(load_ret).df
        IN  /\ symbol = last_op.symbol
            /\ df # Some(<<>>)
            /\ disk[symbol] = <<>> <=> df = None
            /\ df # None =>
                  /\ SameRecords(Val(df), RowsOnDisk(symbol))
                  /\ NonDecreasing(Val(df))
C28_Witness ==
    /\ last_op.op = "load" /\ Val(load_ret).df # None
    /\ LET rows == RowsOnDisk(last_op.symbol)
           df == Val(Val(load_ret).df)
       IN  /\ Len(rows) >= 3
           /\ \E i \in 1..(Len(rows) - 1) : rows[i].timestamp > rows[i + 1].timestamp
           /\ \E i, j \in 1..Len(rows) : i # j /\ rows[i].timestamp = rows[j].timestamp
           /\ df # rows /\ NonDecreasing(df) /\ SameRecords(df, rows)
    /\ \E other \in SymbolSet : disk[other] = <<>>

\* C29: save_to_csv adds exactly its row, at the end of the symbol's file,
\* and leaves every other file as it was; a row whose timestamp the file
\* already holds is added like any other, and load_symbol_data on the file
\* just written returns the row, once more often than before.
C29_AppendAddsOneRecord ==
    last_op.op = "append" =>
        LET symbol == last_op.symbol
            row == last_op.rows[1]
            before == SubSeq(last_op.before[symbol], 2, Len(last_op.before[symbol]))
            df == load_symbol_data(read_csv(disk[symbol]))
        IN  /\ RowsOnDisk(symbol) = Append(before, row)
            /\ \A other \in SymbolSet \ {symbol} : disk[other] = last_op.before[other]
            /\ df # None
            /\ Len(Val(df)) = Len(before) + 1
            /\ Count(Val(df), row) = Count(before, row) + 1
C29_Witness ==
    /\ last_op.op = "append"
    /\ LET rows == RowsOnDisk(last_op.symbol)
           row == last_op.rows[1]
       IN  /\ rows[Len(rows)] = row
           /\ Len(rows) = 4
           /\ \E i \in 1..(Len(rows) - 1) :
                 rows[i].timestamp = row.timestamp /\ rows[i] # row
           /\ Count(rows, row) = 2
           /\ Count(Val(load_symbol_data(read_csv(disk[last_op.symbol]))), row) = 2
    /\ \E other \in SymbolSet \ {last_op.symbol} : disk[other] = LongFile

HeaderLines(lines) == {i \in 1..Len(lines) : lines[i].kind = "header"}

\* C30: every file of the store holds exactly one header line, and it is
\* the file's first line, after any appends and cleanup passes.
C30_OneHeaderFirst ==
    \A symbol \in SymbolSet :
        disk[symbol] # <<>> => HeaderLines(disk[symbol]) = {1}
C30_Witness ==
    /\ last_op.op = "cleanup" /\ store_ops = 3
    /\ \E symbol \in SymbolSet :
          /\ Len(RowsOnDisk(symbol)) = RetainRows
          /\ Len(last_op.before[symbol]) = RetainRows + 2
          /\ HeaderLines(disk[symbol]) = {1}
    /\ \E symbol \in SymbolSet :
          /\ Len(disk[symbol]) = 3 /\ disk[symbol][3].timestamp < disk[symbol][2].timestamp
          /\ HeaderLines(disk[symbol]) = {1}

----------------------------------------------------------------------------
(* Claims about the data analyzer *)

\* The rows of the file inside the period
Kept(df) == {i \in 1..Len(df) : df[i].timestamp >= cutoff_time}
NewestKept(df) ==
    df[CHOOSE i \in Kept(df) : \A j \in Kept(df) : df[j].timestamp <= df[i].timestamp]
OldestKept(df) ==
    df[CHOOSE i \in Kept(df) : \A j \in Kept(df) : df[j].timestamp >= df[i].timestamp]

\* C31: analyze_changes looks only at the rows with timestamp >= cutoff_time;
\* with fewer than 2 of them it returns an error, otherwise every change is
\* the newest such row's value minus the oldest such row's value.
C31_PeriodDelta ==
    changes # None =>
        LET c == Val(changes)
            df == an_files[c.symbol]
        IN  IF Cardinality(Kept(df)) < 2 THEN c.error
            ELSE LET new == NewestKept(df)
                     old == OldestKept(df)
                 IN  /\ ~c.error
                     /\ c.data_points = Cardinality(Kept(df))
                     /\ c.mark_price_change = new.mark_price - old.mark_price
                     /\ c.basis_change = new.basis - old.basis
                     /\ c.basis_percent_change.n = new.basis_percent - old.basis_percent
                     /\ c.basis_percent_change.d = 1
                     /\ c.funding_rate_change.n
                           = new.last_funding_rate - old.last_funding_rate
                     /\ c.funding_rate_change.d = 1
                     /\ c.oi_change = new.oi - old.oi
                     /\ c.account_ratio_change
                           = new.long_short_account_ratio - old.long_short_account_ratio
                     /\ c.taker_ratio_change
                           = new.taker_buy_sell_ratio - old.taker_buy_sell_ratio
                     /\ c.latest_timestamp = new.timestamp
                     /\ c.oldest_timestamp = old.timestamp
C31_Witness ==
    /\ changes # None /\ ~Val(changes).error
    /\ LET df == an_files[Val(changes).symbol]
       IN  /\ Len(df) = 3 /\ cutoff_time = 2
           /\ df[1].oi = 400 /\ df[2].oi = 100 /\ df[3].oi = 400
    /\ Val(changes).oi_change = 300 /\ Val(changes).data_points = 2
    /\ Val(changes).mark_price_change = 100

\* The two percentages of a result
Percentages(c) == {c.mark_price_change_pct, c.oi_change_pct}

\* C32: when the oldest value inside the period is 0 the percentage change is
\* 0, for the price as for the open interest, and no percentage is the
\* outcome of a division by zero (inf or nan).
C32_PercentagesGuarded ==
    (changes # None /\ ~Val(changes).error) =>
        LET c == Val(changes)
            old == OldestKept(an_files[c.symbol])
        IN  /\ old.mark_price = 0 => c.mark_price_change_pct = Num(0, 1)
            /\ old.oi = 0 => c.oi_change_pct = Num(0, 1)
            /\ \A p \in Percentages(c) : p.k = "num"

RankingNames ==
    {"price_increase", "price_decrease", "basis_increase", "basis_decrease",
     "funding_increase", "funding_decrease", "oi_increase", "oi_decrease"}
MetricOf(name) ==
    CASE name \in {"price_increase", "price_decrease"} -> "mark_price_change_pct"
      [] name \in {"basis_increase", "basis_decrease"} -> "basis_percent_change"
      [] name \in {"funding_increase", "funding_decrease"} -> "funding_rate_change"
      [] OTHER -> "oi_change_pct"
Descending(name) ==
    name \in {"price_increase", "basis_increase", "funding_increase", "oi_increase"}
\* a <= b as numbers
Le(a, b) ==
    /\ a.k # "nan" /\ b.k # "nan"
    /\ b.k = "inf" \/ (a.k = "num" /\ a.n * b.d <= b.n * a.d)
\* The place of a symbol in get_available_symbols()
PlaceOf(symbol) == CHOOSE i \in 1..Len(AnalysisSymbols) : AnalysisSymbols[i] = symbol
InOrderOf(name, x, y) ==
    LET kx == x[MetricOf(name)]
        ky == y[MetricOf(name)]
    IN  /\ IF Descending(name) THEN Le(ky, kx) ELSE Le(kx, ky)
        /\ kx = ky => PlaceOf(x.symbol) < PlaceOf(y.symbol)

\* C33: each of the 8 rankings of find_extreme_changes holds exactly top_n
\* results, none of them an error, in the order of the ranking's metric
\* (descending for "increase", ascending for "decrease"), equal values in the
\* order of the symbol list.
C33_RankingsExactAndOrdered ==
    results # None =>
        \A name \in RankingNames :
            LET list == Val(results).rankings[name] IN
            /\ Len(list) = Val(results).top_n
            /\ \A i \in 1..Len(list) : ~list[i].error
            /\ \A i, j \in 1..Len(list) : i < j => InOrderOf(name, list[i], list[j])

----------------------------------------------------------------------------
(* Claims about the steps of one cycle *)

\* The file's last row was written in the running cycle
AppendedThisRun(s) == files[s] # <<>> /\ files[s][Len(files[s])].timestamp > MaxRows

\* C34: in collection_job the appends of all symbols come first, then the
\* size check with the cleanup, then the evaluation of the files, none of
\* them begun before the one before has ended; during the cleanup and the
\* evaluation every row appended in the cycle is still the last row of its
\* file.
C34_StepsInOrder ==
    /\ job = "collect" => clean_todo = {} /\ df_read = None /\ mon_todo = {} /\ alerts = <<>>
    /\ job = "cleanup" => todo = <<>> /\ mon_todo = {} /\ alerts = <<>>
    /\ job = "monitor" => todo = <<>> /\ clean_todo = {} /\ df_read = None
    /\ job \in {"cleanup", "monitor"} =>
          Cardinality({s \in SymbolSet : AppendedThisRun(s)}) = counts.success_count
C34_Witness ==
    /\ job = "monitor" /\ mon_todo = {}
    /\ cleanup_result.files_cleaned >= 1
    /\ counts.success_count = Len(Symbols)
    /\ \A s \in SymbolSet : AppendedThisRun(s)
    /\ \E s \in SymbolSet : Len(files[s]) = RetainRows

\* C35: a file grows only in a pass of collect_data's loop, by the one row
\* appended at its end, and shrinks only in cleanup_old_data, to its last
\* RetainRows rows; the evaluation of the files with the sending of alerts,
\* and the status report, leave every file as it is.
C35_OnlyCollectAndCleanupWrite ==
    [][/\ (job = "monitor" \/ runs'.status # runs.status) => files' = files
       /\ \A s \in SymbolSet :
             files'[s] # files[s] =>
                 \/ /\ job = "collect" /\ todo # <<>> /\ Head(todo) = s
                    /\ Len(files'[s]) = Len(files[s]) + 1
                    /\ \A o \in SymbolSet \ {s} : files'[o] = files[o]
                 \/ /\ job = "cleanup" /\ df_read # None
                    /\ Len(files[s]) > RetainRows /\ Len(files'[s]) = RetainRows
                    /\ \A o \in SymbolSet \ {s} : files'[o] = files[o]]_vars
C35_Witness ==
    /\ job = "idle" /\ runs.status = 1 /\ runs.collection = MaxCycles
    /\ Len(alerts) >= 1
    /\ cleanup_result.files_cleaned >= 1
    /\ \E s \in SymbolSet : AppendedThisRun(s) /\ Len(files[s]) = RetainRows


----------------------------------------------------------------------------
\* C36: while collect_data runs, the successes and errors counted so far and
\* the symbols still to visit add up to the batch, so that at its return
\* success_count + error_count = len(symbols); collection_success_total and
\* collection_errors_total never decrease, and they change only when
\* collection_job adds the pair collect_data returned, each by its own count.
C36_CountsCoverBatch ==
    /\ [](job = "collect" =>
            counts.success_count + counts.error_count + Len(todo) = Len(Symbols))
    /\ [][/\ stats'.collection_success_total >= stats.collection_success_total
          /\ stats'.collection_errors_total >= stats.collection_errors_total
          /\ (\/ stats'.collection_success_total # stats.collection_success_total
              \/ stats'.collection_errors_total # stats.collection_errors_total
              \/ (job = "collect" /\ job' = "monitor"))
             => /\ job = "collect" /\ todo = <<>>
                /\ counts.success_count + counts.error_count = Len(Symbols)
                /\ stats'.collection_success_total =
                      stats.collection_success_total + counts.success_count
                /\ stats'.collection_errors_total =
                      stats.collection_errors_total + counts.error_count]_vars
C36_Witness ==
    /\ job = "monitor" /\ runs.collection = MaxCycles
    /\ counts.success_count >= 1 /\ counts.error_count >= 1
    /\ stats.collection_success_total > counts.success_count
    /\ stats.collection_errors_total > counts.error_count
    /\ stats.collection_success_total + stats.collection_errors_total
          = MaxCycles * Len(Symbols)


----------------------------------------------------------------------------
AlertMessages == {i \in 1..Len(outbox) : outbox[i].kind = "alert"}

\* C37: alerts_sent_total equals alerts_found_total in every state, whether
\* send_alert returned False for an alert or was never called for it.
C37_SentEqualsFound ==
    stats.alerts_sent_total = stats.alerts_found_total
C37_Witness ==
    /\ job = "idle" /\ stats.alerts_found_total >= 1
    /\ Len(alerts) > Cardinality(AlertMessages)
    /\ \E i \in AlertMessages : ~outbox[i].ok


----------------------------------------------------------------------------
\* C38: with the thresholds of Config at the values FundingOIMonitor has in
\* its code, a file for which FundingOIMonitor.check_conditions returns
\* condition_met = True makes Monitor.check_conditions return condition_met =
\* True for every market cap, None included.
C38_FlatImpliesTiered ==
    (flat_result # None /\ Val(flat_result).condition_met) =>
        /\ FUNDING_RATE_THRESHOLD = FlatFundingRateThreshold
        /\ OI_RATIO_THRESHOLD = FlatOIRatioThreshold
        /\ \A cap \in CapVals : check_conditions(csv_rows, cap).condition_met
        /\ result # None => Val(result).condition_met
C38_Witness ==
    /\ flat_result # None /\ Val(flat_result).condition_met
    /\ result # None /\ Val(result).condition_met
    /\ ~IsSmallCap(Val(result).market_cap)


----------------------------------------------------------------------------
\* What a further call of cleanup_old_data removes from the files as they are
RemovedByAnotherPass(failed) ==
    {s \in SymbolSet : cleanup_old_data(files, failed)[s] # files[s]}
AllFilesProcessed == cleanup_result.files_processed = Cardinality(csv_files(files))

\* In cleanup_old_data a file whose read or write raised keeps its rows and
\* only that file leaves the loop; the pass ends only with every file
\* visited, and the end of the pass is where last_cleanup_time is set.
PassIsolated ==
    [][job = "cleanup" =>
         /\ (clean_todo' # clean_todo
                /\ cleanup_result'.files_processed = cleanup_result.files_processed)
               => /\ files' = files
                  /\ job' = "cleanup"
                  /\ \E s \in clean_todo : clean_todo' = clean_todo \ {s}
         /\ job' # "cleanup" =>
               (clean_todo = {} /\ df_read = None /\ stats'.cleanups = stats.cleanups + 1)
         /\ job' = "cleanup" => stats'.cleanups = stats.cleanups]_vars

C39_CleanPassWitness ==
    /\ RetentionPassDone /\ AllFilesProcessed
    /\ cleanup_result.files_cleaned >= 1
    /\ stats.cleanups = 1

============================================================================
